---- MODULE Spec2Model ----
(***************************************************************************)
(* State-machine model of the real-time delivery core of the chat backend: *)
(* the ChatGateway presence maps and event emission (chat.gateway.ts), the *)
(* MessagesService / MessagesController operations on the message store   *)
(* (messages.service.ts) and the parts of ConversationsService they call.  *)
(*                                                                         *)
(* Every handler is cut at its awaits: the code that runs up to and        *)
(* including the execution of a store call is one step, the continuation   *)
(* that runs after the call returns is the next.  In-flight handlers are   *)
(* kept in the bag `tasks`.  `emitted` holds the events emitted by the     *)
(* last step.                                                              *)
(***************************************************************************)
EXTENDS Bags, FiniteSets, Integers, Sequences, TLC

(* ------------------------------ bounds -------------------------------- *)
PresenceTasks == 2   \* handlers in flight, presence specification
BatchMsgs == 2       \* rows of the messages table, batch specification
MaxMsgs == 2         \* rows of the messages table, full specification
MaxTasks == 1        \* handlers in flight, full specification
ScenarioTasks == 2   \* handlers in flight, delivery scenario
RoomTasks == 1       \* handlers in flight, rooms specification
RoomMsgs == 2        \* rows of the messages table, rooms specification
FanoutTasks == 1     \* handlers in flight, fan-out specification
FanoutMsgs == 1      \* rows of the messages table, fan-out specification
RaceTasks == 2       \* handlers in flight, concurrent sends
RaceMsgs == 2        \* rows of the messages table, concurrent sends
VisTasks == 1        \* handlers in flight, visibility specification
VisMsgs == 2         \* rows of the messages table, visibility specification
TombTasks == 2       \* handlers in flight, tombstone specification
TombMsgs == 1        \* rows of the messages table, tombstone specification
AuthTasks == 1       \* handlers in flight, authorization specification
AuthMsgs == 1        \* rows of the messages table, authorization specification
SaveTasks == 1       \* handlers in flight, validation specification
SaveMsgs == 2        \* rows of the messages table, validation specification
ForwardTasks == 1    \* handlers in flight, forward specification
ForwardMsgs == 2     \* rows of the messages table, forward specification
DeletionTasks == 2   \* handlers in flight, per-user deletion specification
ReactionTasks == 2   \* handlers in flight, reaction specification
CancelTasks == 2     \* handlers in flight, disconnect-during-send specification
CancelMsgs == 1      \* rows of the messages table, disconnect-during-send specification
SearchTasks == 1     \* handlers in flight, search specification
SearchMsgs == 2      \* rows of the messages table, search specification
GroupTasks == 2      \* handlers in flight, group specification
GroupMsgs == 1       \* rows of the messages table, group specification
MemberTasks == 2     \* handlers in flight, membership specification
MemberMsgs == 1      \* rows of the messages table, membership specification
FailTasks == 1       \* handlers in flight, failed-send specification
FailMsgs == 2        \* rows of the messages table, failed-send specification
BackfillTasks == 2   \* handlers in flight, backfill-race specification
BackfillMsgs == 3    \* rows of the messages table, backfill-race specification
StaleTasks == 2      \* handlers in flight, stale-write specification

Users == {"A", "B", "C"}
Conversations == {"c1", "c2"}
Sockets == {"s1", "s2", "s3"}

NoUser == ""
NoConversation == ""
Null == "null"

(* MessageType enum *)
MessageType == {"TEXT", "IMAGE", "FILE", "VIDEO", "AUDIO", "SYSTEM"}

(* MessageStatus enum and its order SENT -> DELIVERED -> READ *)
MessageStatus == {"SENDING", "SENT", "DELIVERED", "READ"}

StatusRank(st) ==
  CASE st = "SENDING" -> 0
    [] st = "SENT" -> 1
    [] st = "DELIVERED" -> 2
    [] st = "READ" -> 3

VARIABLES
  userSockets,    \* ChatGateway.userSockets : userId -> set of socket ids
  socketUsers,    \* ChatGateway.socketUsers : socket id -> userId
  connected,      \* transport: open connections that carried a userId
  rooms,          \* transport: <<socket id, conversationId>> of the joined conversation rooms
  participants,   \* conversation_participants rows, as <<conversationId, userId>>
  conversations,  \* conversations rows: the last-message preview
  messages,       \* messages rows in creation order; the index is the id
  deletions,      \* message_deletions rows, as <<messageId, userId>>
  reactions,      \* message_reactions rows: [id, messageId, userId, reaction]
  tasks,          \* handlers suspended at an await
  emitted,        \* events emitted by the last step
  lastStep        \* the last step: <<handler or continuation, its arguments>>

vars == <<userSockets, socketUsers, connected, rooms, participants, conversations,
          messages, deletions, reactions, tasks, emitted, lastStep>>

(* ------------------------------ helpers ------------------------------- *)
MapSet(f, k, v) == [x \in DOMAIN f \cup {k} |-> IF x = k THEN v ELSE f[x]]

MapDelete(f, k) == [x \in DOMAIN f \ {k} |-> f[x]]

One(e) == SetToBag({e})

Ids(msgs) == 1..Len(msgs)

InFlight == BagCardinality(tasks)

Step(t, t2) == tasks' = (tasks (-) One(t)) (+) One(t2)

Finish(t) == tasks' = tasks (-) One(t)

Start(t) == tasks' = tasks (+) One(t)

Pending(op, pc) == {t \in BagToSet(tasks) : t.op = op /\ t.pc = pc}

(* ------------------------- ChatGateway: presence ---------------------- *)
getOnlineUserIds(us) == DOMAIN us

isUserOnline(u) == u \in DOMAIN userSockets

\* mutant: a connect replaces the user's socket set (a lost update)
registerSocket_overwrites(us, u, s) == MapSet(us, u, {s})

\* handleConnection, the two map writes
registerSocket(us, u, s) ==
  MapSet(us, u, (IF u \in DOMAIN us THEN us[u] ELSE {}) \cup {s})

\* mutant: presence as a boolean, the key is dropped on any disconnect
unregisterSocket_dropsKey(us, u, s) == MapDelete(us, u)

\* handleDisconnect, the write to userSockets
unregisterSocket(us, u, s) ==
  IF u \in DOMAIN us
    THEN IF us[u] \ {s} = {} THEN MapDelete(us, u) ELSE MapSet(us, u, us[u] \ {s})
    ELSE us

\* mutant: userOffline on every disconnect of a registered socket
userOfflineEvents_always(us, u, s) ==
  One([name |-> "userOffline", to |-> "all", userId |-> u,
       onlineUsers |-> getOnlineUserIds(unregisterSocket(us, u, s))])

\* handleDisconnect, the userOffline broadcast
userOfflineEvents(us, u, s) ==
  IF u \in DOMAIN us /\ us[u] \ {s} = {}
    THEN One([name |-> "userOffline", to |-> "all", userId |-> u,
              onlineUsers |-> getOnlineUserIds(unregisterSocket(us, u, s))])
    ELSE EmptyBag

\* handleConnection, the userOnline broadcast
userOnlineEvents(us, u) ==
  One([name |-> "userOnline", to |-> "all", userId |-> u,
       onlineUsers |-> getOnlineUserIds(us)])

\* mutant: the connect does not start the backfill
backfillStarted_never(u) == EmptyBag

\* handleConnection, the backfill it starts (not awaited)
backfillStarted(u) == One([op |-> "backfill", pc |-> "findByUserId", userId |-> u])

handleConnection(s, u) ==
  /\ lastStep' = <<"handleConnection", s, u>>
  /\ s \notin DOMAIN connected
  /\ IF u # NoUser
       THEN /\ socketUsers' = MapSet(socketUsers, s, u)
            /\ userSockets' = registerSocket(userSockets, u, s)
            /\ tasks' = tasks (+) backfillStarted(u)
            /\ emitted' = userOnlineEvents(userSockets', u)
            /\ connected' = MapSet(connected, s, u)
       ELSE /\ emitted' = One([name |-> "error", to |-> s])
            /\ UNCHANGED <<socketUsers, userSockets, tasks, connected>>
  /\ UNCHANGED <<rooms, participants, reactions, deletions, conversations, messages>>

\* mutant: a disconnect cancels the sends of the user that are in progress
handleDisconnect_cancels(s) ==
  /\ lastStep' = <<"handleDisconnect", s,
                   IF s \in DOMAIN socketUsers THEN socketUsers[s] ELSE NoUser>>
  /\ IF s \in DOMAIN socketUsers
       THEN /\ userSockets' = unregisterSocket(userSockets, socketUsers[s], s)
            /\ emitted' = userOfflineEvents(userSockets, socketUsers[s], s)
            /\ socketUsers' = MapDelete(socketUsers, s)
            /\ tasks' = LET S == {t \in BagToSet(tasks) :
                                    ~(t.op = "send" /\ t.senderId = socketUsers[s])}
                         IN [t \in S |-> tasks[t]]
       ELSE /\ emitted' = EmptyBag
            /\ UNCHANGED <<userSockets, socketUsers, tasks>>
  /\ connected' = MapDelete(connected, s)
  /\ rooms' = {r \in rooms : r[1] # s}
  /\ UNCHANGED <<participants, reactions, deletions, conversations, messages>>

\* mutant: a disconnect of an unregistered socket is announced as userOffline
handleDisconnect_unguarded(s) ==
  /\ lastStep' = <<"handleDisconnect", s,
                   IF s \in DOMAIN socketUsers THEN socketUsers[s] ELSE NoUser>>
  /\ IF s \in DOMAIN socketUsers
       THEN /\ userSockets' = unregisterSocket(userSockets, socketUsers[s], s)
            /\ emitted' = userOfflineEvents(userSockets, socketUsers[s], s)
            /\ socketUsers' = MapDelete(socketUsers, s)
       ELSE /\ emitted' = One([name |-> "userOffline", to |-> "all", userId |-> NoUser,
                                onlineUsers |-> getOnlineUserIds(userSockets)])
            /\ UNCHANGED <<userSockets, socketUsers>>
  /\ connected' = MapDelete(connected, s)
  /\ rooms' = {r \in rooms : r[1] # s}
  /\ UNCHANGED <<participants, reactions, deletions, conversations, messages, tasks>>

handleDisconnect(s) ==
  /\ lastStep' = <<"handleDisconnect", s,
                   IF s \in DOMAIN socketUsers THEN socketUsers[s] ELSE NoUser>>
  /\ IF s \in DOMAIN socketUsers
       THEN /\ userSockets' = unregisterSocket(userSockets, socketUsers[s], s)
            /\ emitted' = userOfflineEvents(userSockets, socketUsers[s], s)
            /\ socketUsers' = MapDelete(socketUsers, s)
       ELSE /\ emitted' = EmptyBag
            /\ UNCHANGED <<userSockets, socketUsers>>
  /\ connected' = MapDelete(connected, s)
  /\ rooms' = {r \in rooms : r[1] # s}
  /\ UNCHANGED <<participants, reactions, deletions, conversations, messages, tasks>>

(* ---------------- ConversationsService (membership, preview) ----------- *)
\* mutant: everybody passes the membership check
isParticipant_always(parts, c, u) == TRUE

isParticipant(parts, c, u) == <<c, u>> \in parts

\* ids of the conversations findByUserId returns
findByUserId(parts, u) == {c \in Conversations : <<c, u>> \in parts}

\* conversation.participants.map(p => p.userId) of findById
getParticipantUserIds(parts, c) == {u \in Users : <<c, u>> \in parts}

updateLastMessage(convs, c, id, content) ==
  [convs EXCEPT ![c] = [lastMessageId |-> id, lastMessageContent |-> content]]

(* ------------------- MessagesService: batch transitions --------------- *)
\* mutant: the UPDATE also matches rows that are READ already
readEligible_ignoresStatus(m, c, u) ==
  /\ m.conversationId = c
  /\ m.senderId # u
  /\ m.isDeleted = FALSE

\* mutant: the UPDATE also matches the reader's own messages
readEligible_ownToo(m, c, u) ==
  /\ m.conversationId = c
  /\ m.status # "READ"
  /\ m.isDeleted = FALSE

\* WHERE clause of markConversationAsRead
readEligible(m, c, u) ==
  /\ m.conversationId = c
  /\ m.senderId # u
  /\ m.status # "READ"
  /\ m.isDeleted = FALSE

\* rows after the UPDATE of markConversationAsRead
markConversationAsRead(msgs, c, u) ==
  [i \in Ids(msgs) |->
     IF readEligible(msgs[i], c, u) THEN [msgs[i] EXCEPT !.status = "READ"]
                                    ELSE msgs[i]]

\* result.affected || 0 of markConversationAsRead
markConversationAsReadCount(msgs, c, u) ==
  Cardinality({i \in Ids(msgs) : readEligible(msgs[i], c, u)})

\* mutant: senderId = :userId instead of senderId != :userId
deliverEligible_own(m, cids, u) ==
  /\ m.conversationId \in cids
  /\ m.senderId = u
  /\ m.status = "SENT"
  /\ m.isDeleted = FALSE

\* mutant: the queries also match rows past SENT
deliverEligible_anyStatus(m, cids, u) ==
  /\ m.conversationId \in cids
  /\ m.senderId # u
  /\ m.isDeleted = FALSE

\* mutant: delivery tracked per recipient, DELIVERED once every recipient is online
deliverEligible_whenAllOnline(m, cids, u) ==
  /\ m.conversationId \in cids
  /\ m.senderId # u
  /\ m.status = "SENT"
  /\ m.isDeleted = FALSE
  /\ \A cp \in participants :
       cp[1] = m.conversationId /\ cp[2] # m.senderId => cp[2] \in DOMAIN userSockets

\* WHERE clause of both queries of markMessagesAsDeliveredForUser
deliverEligible(m, cids, u) ==
  /\ m.conversationId \in cids
  /\ m.senderId # u
  /\ m.status = "SENT"
  /\ m.isDeleted = FALSE

\* SELECT DISTINCT conversationId ... of markMessagesAsDeliveredForUser
conversationsWithSentMessages(msgs, cids, u) ==
  {msgs[i].conversationId : i \in {j \in Ids(msgs) : deliverEligible(msgs[j], cids, u)}}

\* rows after the UPDATE of markMessagesAsDeliveredForUser
markDeliveredRows(msgs, cids, u) ==
  [i \in Ids(msgs) |->
     IF deliverEligible(msgs[i], cids, u) THEN [msgs[i] EXCEPT !.status = "DELIVERED"]
                                          ELSE msgs[i]]

\* result.affected || 0 of markMessagesAsDeliveredForUser
markDeliveredCount(msgs, cids, u) ==
  Cardinality({i \in Ids(msgs) : deliverEligible(msgs[i], cids, u)})

\* ids of the rows whose status differs between two versions of the table
StatusChanged(before, after) ==
  {i \in Ids(before) : after[i].status # before[i].status}

(* -------- ChatGateway.markMessagesAsDeliveredForUser (the backfill) ---- *)
\* await conversationsService.findByUserId(userId); early return when empty
markDelivered_findByUserId(t) ==
  /\ lastStep' = <<"markDelivered_findByUserId", t>>
  /\ t \in Pending("backfill", "findByUserId")
  /\ LET cids == findByUserId(participants, t.userId) IN
       IF cids = {}
         THEN Finish(t)
         ELSE Step(t, [op |-> "backfill", pc |-> "select", userId |-> t.userId,
                       conversationIds |-> cids])
  /\ emitted' = EmptyBag
  /\ UNCHANGED <<userSockets, socketUsers, connected, rooms, participants, reactions, deletions, conversations, messages>>

\* await ... getRawMany(); early return when no conversation has SENT messages
markDelivered_select(t) ==
  /\ lastStep' = <<"markDelivered_select", t>>
  /\ t \in Pending("backfill", "select")
  /\ LET affected == conversationsWithSentMessages(messages, t.conversationIds, t.userId) IN
       IF affected = {}
         THEN Finish(t)
         ELSE Step(t, [op |-> "backfill", pc |-> "update", userId |-> t.userId,
                       conversationIds |-> t.conversationIds,
                       affectedConversationIds |-> affected])
  /\ emitted' = EmptyBag
  /\ UNCHANGED <<userSockets, socketUsers, connected, rooms, participants, reactions, deletions, conversations, messages>>

\* await ... update(Message).set({status: DELIVERED}) ... execute()
markDelivered_update(t) ==
  /\ lastStep' = <<"markDelivered_update", t>>
  /\ t \in Pending("backfill", "update")
  /\ messages' = markDeliveredRows(messages, t.conversationIds, t.userId)
  /\ Step(t, [op |-> "backfill", pc |-> "emit", userId |-> t.userId,
              conversationIds |-> t.affectedConversationIds,
              updatedCount |-> markDeliveredCount(messages, t.conversationIds, t.userId),
              changed |-> StatusChanged(messages, messages')])
  /\ emitted' = EmptyBag
  /\ UNCHANGED <<userSockets, socketUsers, connected, rooms, participants, reactions, deletions, conversations>>

\* the messagesDelivered events of one backfill result
messagesDeliveredEvents(u, updatedCount, cids) ==
  IF updatedCount > 0
    THEN SetToBag({[name |-> "messagesDelivered", to |-> <<"room", c>>,
                    conversationId |-> c, deliveredTo |-> u] : c \in cids})
    ELSE EmptyBag

\* the continuation in the gateway: if (result.updatedCount > 0) forEach emit
markDelivered_emit(t) ==
  /\ lastStep' = <<"markDelivered_emit", t>>
  /\ t \in Pending("backfill", "emit")
  /\ emitted' = messagesDeliveredEvents(t.userId, t.updatedCount, t.conversationIds)
  /\ Finish(t)
  /\ UNCHANGED <<userSockets, socketUsers, connected, rooms, participants, reactions, deletions, conversations, messages>>

(* --------------------- ChatGateway.handleMarkAsRead ------------------- *)
handleMarkAsRead(s, c) ==
  /\ lastStep' = <<"handleMarkAsRead", s, c>>
  /\ IF s \notin DOMAIN socketUsers \/ c = NoConversation
       THEN UNCHANGED tasks
       ELSE Start([op |-> "markAsRead", pc |-> "update", socket |-> s,
                   userId |-> socketUsers[s], conversationId |-> c])
  /\ emitted' = EmptyBag
  /\ UNCHANGED <<userSockets, socketUsers, connected, rooms, participants, reactions, deletions, conversations, messages>>

\* await messagesService.markConversationAsRead(conversationId, userId)
handleMarkAsRead_update(t) ==
  /\ lastStep' = <<"handleMarkAsRead_update", t>>
  /\ t \in Pending("markAsRead", "update")
  /\ messages' = markConversationAsRead(messages, t.conversationId, t.userId)
  /\ Step(t, [op |-> "markAsRead", pc |-> "emit", socket |-> t.socket,
              userId |-> t.userId, conversationId |-> t.conversationId,
              updatedCount |-> markConversationAsReadCount(messages, t.conversationId, t.userId),
              changed |-> StatusChanged(messages, messages')])
  /\ emitted' = EmptyBag
  /\ UNCHANGED <<userSockets, socketUsers, connected, rooms, participants, reactions, deletions, conversations>>

\* mutant: the event is emitted whatever the count
messagesReadEvents_always(c, u, updatedCount) ==
  One([name |-> "messagesRead", to |-> <<"room", c>>, conversationId |-> c,
       readBy |-> u, updatedCount |-> updatedCount])

\* the messagesRead event of one markAsRead result
messagesReadEvents(c, u, updatedCount) ==
  IF updatedCount > 0
    THEN One([name |-> "messagesRead", to |-> <<"room", c>>, conversationId |-> c,
              readBy |-> u, updatedCount |-> updatedCount])
    ELSE EmptyBag

handleMarkAsRead_emit(t) ==
  /\ lastStep' = <<"handleMarkAsRead_emit", t>>
  /\ t \in Pending("markAsRead", "emit")
  /\ emitted' = messagesReadEvents(t.conversationId, t.userId, t.updatedCount)
  /\ Finish(t)
  /\ UNCHANGED <<userSockets, socketUsers, connected, rooms, participants, reactions, deletions, conversations, messages>>

(* ------------------ ChatGateway: fan-out of a new message ------------- *)
\* mutant: only one device of the user is notified
sendToUser_oneSocket(us, p, c, id, content) ==
  IF p \in DOMAIN us
    THEN LET s == CHOOSE x \in us[p] : TRUE
         IN One([name |-> "conversationUpdated", to |-> <<"socket", s>>, userId |-> p,
                 conversationId |-> c, lastMessageId |-> id, content |-> content])
    ELSE EmptyBag

\* sendToUser(userId, 'conversationUpdated', data): one emit per socket of the user
sendToUser(us, p, c, id, content) ==
  IF p \in DOMAIN us
    THEN SetToBag({[name |-> "conversationUpdated", to |-> <<"socket", s>>, userId |-> p,
                    conversationId |-> c, lastMessageId |-> id, content |-> content]
                   : s \in us[p]})
    ELSE EmptyBag

\* mutant: the sender is notified as well
notifiedParticipants_all(participantIds, senderId) == participantIds

\* the participants broadcastToConversation notifies individually
notifiedParticipants(participantIds, senderId) == participantIds \ {senderId}

broadcastToConversation(us, c, id, senderId, content, participantIds) ==
  One([name |-> "newMessage", to |-> <<"room", c>>, conversationId |-> c, id |-> id,
       senderId |-> senderId, content |-> content])
  (+) SetToBag(UNION {BagToSet(sendToUser(us, p, c, id, content))
                      : p \in notifiedParticipants(participantIds, senderId)})

(* --------------------- MessagesService: single rows ------------------- *)
IsBlank(x) == x \in {Null, "", " "}

\* validateMessageContent: TRUE when the dto is rejected with BadRequest
validateMessageContent(type, content, fileUrl) ==
  \/ type = "TEXT" /\ IsBlank(content)
  \/ type \in {"IMAGE", "FILE"} /\ IsBlank(fileUrl)

\* messageRepository.create({... status: SENT}) of saveMessage
createMessage(c, u, content, type, fileUrl) ==
  [conversationId |-> c, senderId |-> u, content |-> content, type |-> type,
   fileUrl |-> fileUrl, status |-> "SENT", isDeleted |-> FALSE, editedAt |-> Null,
   forwardedFromId |-> 0]

\* mutant: the copy does not name the message it was forwarded from
createForwarded_noOrigin(original, originalId, target, u) ==
  [conversationId |-> target, senderId |-> u, content |-> original.content,
   type |-> original.type, fileUrl |-> original.fileUrl, status |-> "SENT",
   isDeleted |-> FALSE, editedAt |-> Null, forwardedFromId |-> 0]

\* messageRepository.create({...}) of forwardMessage
createForwarded(original, originalId, target, u) ==
  [conversationId |-> target, senderId |-> u, content |-> original.content,
   type |-> original.type, fileUrl |-> original.fileUrl, status |-> "SENT",
   isDeleted |-> FALSE, editedAt |-> Null, forwardedFromId |-> originalId]

\* messageRepository.save(entity) of a loaded entity: every column whose
\* in-memory value differs from the row is written
save(msgs, id, entity) == [msgs EXCEPT ![id] = entity]

\* message.status = status of updateStatus
withStatus(m, status) == [m EXCEPT !.status = status]

\* the two assignments of editMessage
withEdit(m, newContent) == [m EXCEPT !.content = newContent, !.editedAt = "date"]

\* the two assignments of deleteMessageForEveryone
withTombstone(m) == [m EXCEPT !.isDeleted = TRUE, !.content = Null]

\* tasks that will still insert a message row
Creating ==
  LET S == {t \in BagToSet(tasks) :
              \/ t.op = "send" /\ t.pc = "save"
              \/ t.op = "forward" /\ t.pc \in {"isParticipant", "save"}}
  IN BagCardinality([t \in S |-> tasks[t]])

Room(c) == <<"room", c>>

Reject(error) == emitted' = One([name |-> "error", to |-> "caller", error |-> error])

GatewayUnchanged == UNCHANGED <<userSockets, socketUsers, connected, rooms>>

(* ------------- MessagesController.sendTextMessage / saveMessage ------- *)
\* validateMessageContent, then await isParticipant
sendTextMessage(c, u, content) ==
  /\ lastStep' = <<"sendTextMessage", c, u, content>>
  /\ IF validateMessageContent("TEXT", content, Null)
       THEN Reject("BadRequest") /\ UNCHANGED tasks
       ELSE IF ~isParticipant(participants, c, u)
         THEN Reject("Forbidden") /\ UNCHANGED tasks
         ELSE /\ Start([op |-> "send", pc |-> "save", conversationId |-> c,
                        senderId |-> u, content |-> content, type |-> "TEXT",
                        fileUrl |-> Null])
              /\ emitted' = EmptyBag
  /\ GatewayUnchanged
  /\ UNCHANGED <<participants, reactions, deletions, conversations, messages>>

\* await messageRepository.save(message)
saveMessage_save(t) ==
  /\ lastStep' = <<"saveMessage_save", t>>
  /\ t \in Pending("send", "save")
  /\ messages' = Append(messages,
                        createMessage(t.conversationId, t.senderId, t.content, t.type,
                                      t.fileUrl))
  /\ Step(t, [op |-> "send", pc |-> "updateLastMessage", conversationId |-> t.conversationId,
              senderId |-> t.senderId, content |-> t.content, id |-> Len(messages) + 1])
  /\ emitted' = EmptyBag
  /\ GatewayUnchanged
  /\ UNCHANGED <<participants, reactions, deletions, conversations>>

\* await conversationsService.updateLastMessage(...)
saveMessage_updateLastMessage(t) ==
  /\ lastStep' = <<"saveMessage_updateLastMessage", t>>
  /\ t \in Pending("send", "updateLastMessage")
  /\ conversations' = updateLastMessage(conversations, t.conversationId, t.id, t.content)
  /\ Step(t, [t EXCEPT !.pc = "findById"])
  /\ emitted' = EmptyBag
  /\ GatewayUnchanged
  /\ UNCHANGED <<participants, reactions, deletions, messages>>

\* await conversationsService.findById(conversationId)
sendTextMessage_findById(t) ==
  /\ lastStep' = <<"sendTextMessage_findById", t>>
  /\ t \in Pending("send", "findById")
  /\ Step(t, [op |-> "send", pc |-> "broadcast", conversationId |-> t.conversationId,
              senderId |-> t.senderId, content |-> t.content, id |-> t.id,
              participantIds |-> getParticipantUserIds(participants, t.conversationId)])
  /\ emitted' = EmptyBag
  /\ GatewayUnchanged
  /\ UNCHANGED <<participants, reactions, deletions, conversations, messages>>

\* chatGateway.broadcastToConversation(conversationId, messageResponse, participantIds)
sendTextMessage_broadcast(t) ==
  /\ lastStep' = <<"sendTextMessage_broadcast", t>>
  /\ t \in Pending("send", "broadcast")
  /\ emitted' = broadcastToConversation(userSockets, t.conversationId, t.id, t.senderId,
                                        t.content, t.participantIds)
  /\ Finish(t)
  /\ GatewayUnchanged
  /\ UNCHANGED <<participants, reactions, deletions, conversations, messages>>

(* ------------ UploadController.createFileMessage / saveMessage -------- *)
\* the three argument checks, validateMessageContent, then await isParticipant;
\* the handler continues as sendTextMessage does: save, updateLastMessage,
\* findById, broadcastToConversation
createFileMessage(c, u, type, content) ==
  /\ lastStep' = <<"createFileMessage", c, u, type, content>>
  /\ IF c = NoConversation \/ u = NoUser \/ validateMessageContent(type, content, "/uploads/f")
       THEN Reject("BadRequest") /\ UNCHANGED tasks
       ELSE IF ~isParticipant(participants, c, u)
         THEN Reject("Forbidden") /\ UNCHANGED tasks
         ELSE /\ Start([op |-> "send", pc |-> "save", conversationId |-> c,
                        senderId |-> u, content |-> content, type |-> type,
                        fileUrl |-> "/uploads/f"])
              /\ emitted' = EmptyBag
  /\ GatewayUnchanged
  /\ UNCHANGED <<participants, reactions, deletions, conversations, messages>>

(* ------------- MessagesService.saveMessage with any dto --------------- *)
\* validateMessageContent(createMessageDto), then await isParticipant; content
\* and fileUrl default to null; the caller continues as the controllers do
saveMessage(c, u, type, content, fileUrl) ==
  /\ lastStep' = <<"saveMessage", c, u, type, content, fileUrl>>
  /\ IF validateMessageContent(type, content, fileUrl)
       THEN Reject("BadRequest") /\ UNCHANGED tasks
       ELSE IF ~isParticipant(participants, c, u)
         THEN Reject("Forbidden") /\ UNCHANGED tasks
         ELSE /\ Start([op |-> "send", pc |-> "save", conversationId |-> c,
                        senderId |-> u, content |-> content, type |-> type,
                        fileUrl |-> fileUrl])
              /\ emitted' = EmptyBag
  /\ GatewayUnchanged
  /\ UNCHANGED <<participants, reactions, deletions, conversations, messages>>

(* --------- MessagesController.updateMessageStatus / updateStatus ------- *)
\* await findOne; message.status = status
updateMessageStatus(id, status) ==
  /\ lastStep' = <<"updateMessageStatus", id, status>>
  /\ IF id \notin Ids(messages)
       THEN Reject("NotFound") /\ UNCHANGED tasks
       ELSE /\ Start([op |-> "updateStatus", pc |-> "save", id |-> id,
                      entity |-> withStatus(messages[id], status)])
            /\ emitted' = EmptyBag
  /\ GatewayUnchanged
  /\ UNCHANGED <<participants, reactions, deletions, conversations, messages>>

\* return this.messageRepository.save(message)
updateStatus_save(t) ==
  /\ lastStep' = <<"updateStatus_save", t>>
  /\ t \in Pending("updateStatus", "save")
  /\ messages' = save(messages, t.id, t.entity)
  /\ Step(t, [t EXCEPT !.pc = "emit"])
  /\ emitted' = EmptyBag
  /\ GatewayUnchanged
  /\ UNCHANGED <<participants, reactions, deletions, conversations>>

\* emit('messageStatusUpdated', messageResponse)
updateMessageStatus_emit(t) ==
  /\ lastStep' = <<"updateMessageStatus_emit", t>>
  /\ t \in Pending("updateStatus", "emit")
  /\ emitted' = One([name |-> "messageStatusUpdated", to |-> Room(t.entity.conversationId),
                     id |-> t.id, status |-> t.entity.status])
  /\ Finish(t)
  /\ GatewayUnchanged
  /\ UNCHANGED <<participants, reactions, deletions, conversations, messages>>

(* -------------- MessagesController.editMessage / editMessage ----------- *)
\* await findOne; the four checks; the two assignments
editMessage(id, u, newContent) ==
  /\ lastStep' = <<"editMessage", id, u, newContent>>
  /\ IF id \notin Ids(messages)
       THEN Reject("NotFound") /\ UNCHANGED tasks
       ELSE IF messages[id].senderId # u
         THEN Reject("Forbidden") /\ UNCHANGED tasks
         ELSE IF messages[id].type # "TEXT" \/ messages[id].isDeleted
           THEN Reject("BadRequest") /\ UNCHANGED tasks
           ELSE /\ Start([op |-> "edit", pc |-> "save", id |-> id,
                          entity |-> withEdit(messages[id], newContent)])
                /\ emitted' = EmptyBag
  /\ GatewayUnchanged
  /\ UNCHANGED <<participants, reactions, deletions, conversations, messages>>

\* await messageRepository.save(message)
editMessage_save(t) ==
  /\ lastStep' = <<"editMessage_save", t>>
  /\ t \in Pending("edit", "save")
  /\ messages' = save(messages, t.id, t.entity)
  /\ Step(t, [t EXCEPT !.pc = "emit"])
  /\ emitted' = EmptyBag
  /\ GatewayUnchanged
  /\ UNCHANGED <<participants, reactions, deletions, conversations>>

\* emit('messageEdited', messageResponse)
editMessage_emit(t) ==
  /\ lastStep' = <<"editMessage_emit", t>>
  /\ t \in Pending("edit", "emit")
  /\ emitted' = One([name |-> "messageEdited", to |-> Room(t.entity.conversationId),
                     id |-> t.id, content |-> t.entity.content, status |-> t.entity.status])
  /\ Finish(t)
  /\ GatewayUnchanged
  /\ UNCHANGED <<participants, reactions, deletions, conversations, messages>>

(* --- MessagesController.deleteMessageForEveryone / deleteMessageForEveryone --- *)
\* const msg = await this.messagesService.findById(messageId)
deleteMessageForEveryone(id, u) ==
  /\ lastStep' = <<"deleteMessageForEveryone", id, u>>
  /\ IF id \notin Ids(messages)
       THEN Reject("NotFound") /\ UNCHANGED tasks
       ELSE /\ Start([op |-> "delete", pc |-> "findOne", id |-> id, userId |-> u,
                      conversationId |-> messages[id].conversationId])
            /\ emitted' = EmptyBag
  /\ GatewayUnchanged
  /\ UNCHANGED <<participants, reactions, deletions, conversations, messages>>

\* await findOne; the sender check; the two assignments
deleteMessageForEveryone_findOne(t) ==
  /\ lastStep' = <<"deleteMessageForEveryone_findOne", t>>
  /\ t \in Pending("delete", "findOne")
  /\ IF messages[t.id].senderId # t.userId
       THEN Reject("Forbidden") /\ Finish(t)
       ELSE /\ Step(t, [op |-> "delete", pc |-> "save", id |-> t.id, userId |-> t.userId,
                        conversationId |-> t.conversationId,
                        entity |-> withTombstone(messages[t.id])])
            /\ emitted' = EmptyBag
  /\ GatewayUnchanged
  /\ UNCHANGED <<participants, reactions, deletions, conversations, messages>>

\* await messageRepository.save(message)
deleteMessageForEveryone_save(t) ==
  /\ lastStep' = <<"deleteMessageForEveryone_save", t>>
  /\ t \in Pending("delete", "save")
  /\ messages' = save(messages, t.id, t.entity)
  /\ Step(t, [op |-> "delete", pc |-> "emit", id |-> t.id, userId |-> t.userId,
              conversationId |-> t.conversationId])
  /\ emitted' = EmptyBag
  /\ GatewayUnchanged
  /\ UNCHANGED <<participants, reactions, deletions, conversations>>

\* emit('messageDeleted', { messageId, deletedForEveryone: true })
deleteMessageForEveryone_emit(t) ==
  /\ lastStep' = <<"deleteMessageForEveryone_emit", t>>
  /\ t \in Pending("delete", "emit")
  /\ emitted' = One([name |-> "messageDeleted", to |-> Room(t.conversationId), id |-> t.id])
  /\ Finish(t)
  /\ GatewayUnchanged
  /\ UNCHANGED <<participants, reactions, deletions, conversations, messages>>

(* ----------- MessagesController.forwardMessage / forwardMessage -------- *)
\* const originalMessage = await findOne
forwardMessage(id, u, target) ==
  /\ lastStep' = <<"forwardMessage", id, u, target>>
  /\ IF id \notin Ids(messages)
       THEN Reject("NotFound") /\ UNCHANGED tasks
       ELSE /\ Start([op |-> "forward", pc |-> "isParticipant", id |-> id, userId |-> u,
                      conversationId |-> target, original |-> messages[id]])
            /\ emitted' = EmptyBag
  /\ GatewayUnchanged
  /\ UNCHANGED <<participants, reactions, deletions, conversations, messages>>

\* await isParticipant(targetConversationId, userId)
forwardMessage_isParticipant(t) ==
  /\ lastStep' = <<"forwardMessage_isParticipant", t>>
  /\ t \in Pending("forward", "isParticipant")
  /\ IF ~isParticipant(participants, t.conversationId, t.userId)
       THEN Reject("Forbidden") /\ Finish(t)
       ELSE Step(t, [t EXCEPT !.pc = "save"]) /\ emitted' = EmptyBag
  /\ GatewayUnchanged
  /\ UNCHANGED <<participants, reactions, deletions, conversations, messages>>

\* const saved = await messageRepository.save(forwardedMessage)
forwardMessage_save(t) ==
  /\ lastStep' = <<"forwardMessage_save", t>>
  /\ t \in Pending("forward", "save")
  /\ messages' = Append(messages,
                        createForwarded(t.original, t.id, t.conversationId, t.userId))
  /\ Step(t, [op |-> "forward", pc |-> "findById", conversationId |-> t.conversationId,
              senderId |-> t.userId, content |-> t.original.content,
              id |-> Len(messages) + 1])
  /\ emitted' = EmptyBag
  /\ GatewayUnchanged
  /\ UNCHANGED <<participants, reactions, deletions, conversations>>

\* await conversationsService.findById(body.targetConversationId)
forwardMessage_findById(t) ==
  /\ lastStep' = <<"forwardMessage_findById", t>>
  /\ t \in Pending("forward", "findById")
  /\ Step(t, [op |-> "forward", pc |-> "broadcast", conversationId |-> t.conversationId,
              senderId |-> t.senderId, content |-> t.content, id |-> t.id,
              participantIds |-> getParticipantUserIds(participants, t.conversationId)])
  /\ emitted' = EmptyBag
  /\ GatewayUnchanged
  /\ UNCHANGED <<participants, reactions, deletions, conversations, messages>>

\* chatGateway.broadcastToConversation(targetConversationId, messageResponse, participantIds)
forwardMessage_broadcast(t) ==
  /\ lastStep' = <<"forwardMessage_broadcast", t>>
  /\ t \in Pending("forward", "broadcast")
  /\ emitted' = broadcastToConversation(userSockets, t.conversationId, t.id, t.senderId,
                                        t.content, t.participantIds)
  /\ Finish(t)
  /\ GatewayUnchanged
  /\ UNCHANGED <<participants, reactions, deletions, conversations, messages>>

(* --- ConversationsController.removeParticipant / removeParticipant ---- *)
\* Conversation.type of the conversations rows: c1 is a group, c2 a 1-1 chat
conversationType(c) == IF c = "c1" THEN "GROUP" ELSE "PRIVATE"

\* DELETE :id/participants/:participantId?userId=: await findById(conversationId)
removeParticipant(c, requesterId, participantIdToRemove) ==
  /\ lastStep' = <<"removeParticipant", c, requesterId, participantIdToRemove>>
  /\ IF c \notin Conversations
       THEN Reject("NotFound") /\ UNCHANGED tasks
       ELSE /\ Start([op |-> "removeParticipant", pc |-> "findById", conversationId |-> c,
                      requesterId |-> requesterId, userId |-> participantIdToRemove])
            /\ emitted' = EmptyBag
  /\ GatewayUnchanged
  /\ UNCHANGED <<participants, reactions, deletions, conversations, messages>>

\* if (conversation.type === PRIVATE) throw; await isParticipant(requester)
removeParticipant_findById(t) ==
  /\ lastStep' = <<"removeParticipant_findById", t>>
  /\ t \in Pending("removeParticipant", "findById")
  /\ IF conversationType(t.conversationId) = "PRIVATE"
       THEN Reject("BadRequest") /\ Finish(t)
       ELSE Step(t, [t EXCEPT !.pc = "isRequester"]) /\ emitted' = EmptyBag
  /\ GatewayUnchanged
  /\ UNCHANGED <<participants, reactions, deletions, conversations, messages>>

\* if (!(await isParticipant(conversationId, requesterId))) throw
removeParticipant_isRequester(t) ==
  /\ lastStep' = <<"removeParticipant_isRequester", t>>
  /\ t \in Pending("removeParticipant", "isRequester")
  /\ IF ~isParticipant(participants, t.conversationId, t.requesterId)
       THEN Reject("BadRequest") /\ Finish(t)
       ELSE Step(t, [t EXCEPT !.pc = "isTarget"]) /\ emitted' = EmptyBag
  /\ GatewayUnchanged
  /\ UNCHANGED <<participants, reactions, deletions, conversations, messages>>

\* if (!(await isParticipant(conversationId, participantIdToRemove))) throw
removeParticipant_isTarget(t) ==
  /\ lastStep' = <<"removeParticipant_isTarget", t>>
  /\ t \in Pending("removeParticipant", "isTarget")
  /\ IF ~isParticipant(participants, t.conversationId, t.userId)
       THEN Reject("BadRequest") /\ Finish(t)
       ELSE Step(t, [t EXCEPT !.pc = "delete"]) /\ emitted' = EmptyBag
  /\ GatewayUnchanged
  /\ UNCHANGED <<participants, reactions, deletions, conversations, messages>>

\* await participantRepository.delete({conversationId, userId}); the reads
\* that follow (findById, usersService.findById) change nothing
removeParticipant_delete(t) ==
  /\ lastStep' = <<"removeParticipant_delete", t>>
  /\ t \in Pending("removeParticipant", "delete")
  /\ participants' = participants \ {<<t.conversationId, t.userId>>}
  /\ Step(t, [t EXCEPT !.pc = "emit"])
  /\ emitted' = EmptyBag
  /\ GatewayUnchanged
  /\ UNCHANGED <<reactions, deletions, conversations, messages>>

\* chatGateway.server.to(`conversation:${id}`).emit('participantLeft', ...)
removeParticipant_emit(t) ==
  /\ lastStep' = <<"removeParticipant_emit", t>>
  /\ t \in Pending("removeParticipant", "emit")
  /\ emitted' = One([name |-> "participantLeft", to |-> Room(t.conversationId),
                     conversationId |-> t.conversationId, userId |-> t.userId,
                     removedBy |-> t.requesterId])
  /\ Finish(t)
  /\ GatewayUnchanged
  /\ UNCHANGED <<participants, reactions, deletions, conversations, messages>>

(* ------------------------- store call failures ------------------------ *)
\* the store call a handler is waiting for throws: the gateway handlers' catch
\* logs it, a REST handler answers with the error; nothing is emitted
storeError(t) ==
  /\ lastStep' = <<"storeError", t>>
  /\ t \in BagToSet(tasks)
  /\ t.pc \notin {"emit", "broadcast"}
  /\ Finish(t)
  /\ emitted' = IF t.op \in {"backfill", "markAsRead"}
                  THEN EmptyBag
                  ELSE One([name |-> "error", to |-> "caller", error |-> "InternalServerError"])
  /\ GatewayUnchanged
  /\ UNCHANGED <<participants, reactions, deletions, conversations, messages>>

(* ------------------------ ChatGateway: rooms -------------------------- *)
\* client.join(`conversation:${conversationId}`) for an authenticated socket
handleJoinConversation(s, c) ==
  /\ lastStep' = <<"handleJoinConversation", s, c>>
  /\ IF s \notin DOMAIN socketUsers
       THEN /\ emitted' = One([name |-> "error", to |-> s])
            /\ UNCHANGED rooms
       ELSE /\ rooms' = rooms \cup {<<s, c>>}
            /\ emitted' = One([name |-> "joinedConversation", to |-> s, conversationId |-> c])
  /\ UNCHANGED <<userSockets, socketUsers, connected, tasks>>
  /\ UNCHANGED <<participants, reactions, deletions, conversations, messages>>

\* client.leave(`conversation:${conversationId}`)
handleLeaveConversation(s, c) ==
  /\ lastStep' = <<"handleLeaveConversation", s, c>>
  /\ rooms' = rooms \ {<<s, c>>}
  /\ emitted' = EmptyBag
  /\ UNCHANGED <<userSockets, socketUsers, connected, tasks>>
  /\ UNCHANGED <<participants, reactions, deletions, conversations, messages>>

\* the events of the gateway addressed with server.to(`conversation:${id}`)
RoomEvents ==
  {"newMessage", "messagesRead", "messagesDelivered", "messageEdited", "messageDeleted",
   "messageStatusUpdated", "messageReaction", "participantLeft"}

\* the sockets an emitted event reaches: the sockets joined to the room for
\* server.to(room), the socket itself for server.to(socketId)
Receivers(e) ==
  IF e.name \in RoomEvents
    THEN {s \in DOMAIN connected : <<s, e.conversationId>> \in rooms}
    ELSE IF e.name = "conversationUpdated"
      THEN {e.to[2]} \cap DOMAIN connected
      ELSE {}

(* ------ MessagesController.deleteMessageForMe / deleteMessageForMe ----- *)
\* const message = await findOne
deleteMessageForMe(id, u) ==
  /\ lastStep' = <<"deleteMessageForMe", id, u>>
  /\ IF id \notin Ids(messages)
       THEN Reject("NotFound") /\ UNCHANGED tasks
       ELSE /\ Start([op |-> "deleteForMe", pc |-> "findOne", id |-> id, userId |-> u])
            /\ emitted' = EmptyBag
  /\ GatewayUnchanged
  /\ UNCHANGED <<participants, reactions, deletions, conversations, messages>>

\* const existing = await deletionRepository.findOne({ messageId, userId })
deleteMessageForMe_findOne(t) ==
  /\ lastStep' = <<"deleteMessageForMe_findOne", t>>
  /\ t \in Pending("deleteForMe", "findOne")
  /\ IF <<t.id, t.userId>> \in deletions
       THEN Finish(t)
       ELSE Step(t, [t EXCEPT !.pc = "save"])
  /\ emitted' = EmptyBag
  /\ GatewayUnchanged
  /\ UNCHANGED <<participants, reactions, deletions, conversations, messages>>

\* await deletionRepository.save(deletion): an INSERT; the unique constraint on
\* (messageId, userId) fails it when the pair has a row by now, and the error
\* is caught nowhere
deleteMessageForMe_save(t) ==
  /\ lastStep' = <<"deleteMessageForMe_save", t>>
  /\ t \in Pending("deleteForMe", "save")
  /\ IF <<t.id, t.userId>> \in deletions
       THEN Reject("InternalServerError") /\ UNCHANGED deletions
       ELSE /\ deletions' = deletions \cup {<<t.id, t.userId>>}
            /\ emitted' = EmptyBag
  /\ Finish(t)
  /\ GatewayUnchanged
  /\ UNCHANGED <<participants, reactions, conversations, messages>>

(* ---------- MessagesController.addReaction / addReaction -------------- *)
\* the rows of the pair (messageId, userId)
reactionsOf(rows, id, u) == {r \in rows : r.messageId = id /\ r.userId = u}

\* a primary key no row and no loaded entity has (PrimaryGeneratedColumn('uuid'))
newReactionId(rows) ==
  LET used == {r.id : r \in rows}
               \cup {t.existing : t \in {x \in BagToSet(tasks) : x.op = "react" /\ x.pc = "save"}}
  IN CHOOSE n \in 1..(Cardinality(used) + 1) : n \notin used

\* const message = await messageRepository.findOne
addReaction(id, u, reaction) ==
  /\ lastStep' = <<"addReaction", id, u, reaction>>
  /\ IF id \notin Ids(messages)
       THEN Reject("NotFound") /\ UNCHANGED tasks
       ELSE /\ Start([op |-> "react", pc |-> "findOne", id |-> id, userId |-> u,
                      reaction |-> reaction])
            /\ emitted' = EmptyBag
  /\ GatewayUnchanged
  /\ UNCHANGED <<participants, reactions, deletions, conversations, messages>>

\* let existingReaction = await reactionRepository.findOne({ messageId, userId });
\* existing is the primary key of the row found, 0 when there is none
addReaction_findOne(t) ==
  /\ lastStep' = <<"addReaction_findOne", t>>
  /\ t \in Pending("react", "findOne")
  /\ LET found == reactionsOf(reactions, t.id, t.userId) IN
       Step(t, [op |-> "react", pc |-> "save", id |-> t.id, userId |-> t.userId,
                reaction |-> t.reaction,
                existing |-> IF found = {} THEN 0 ELSE (CHOOSE r \in found : TRUE).id])
  /\ emitted' = EmptyBag
  /\ GatewayUnchanged
  /\ UNCHANGED <<participants, reactions, deletions, conversations, messages>>

\* reactionRepository.save(entity): an UPDATE when the table has a row with the
\* entity's primary key, an INSERT otherwise; the unique constraint on
\* (messageId, userId) fails an INSERT when the pair has a row
saveReaction(rows, rid, id, u, reaction) ==
  IF \E r \in rows : r.id = rid
    THEN {IF r.id = rid THEN [r EXCEPT !.reaction = reaction] ELSE r : r \in rows}
    ELSE rows \cup {[id |-> rid, messageId |-> id, userId |-> u, reaction |-> reaction]}

\* TRUE when the save fails on the unique constraint
saveReactionFails(rows, rid, id, u) ==
  /\ ~\E r \in rows : r.id = rid
  /\ reactionsOf(rows, id, u) # {}

\* return this.reactionRepository.save(existingReaction | newReaction)
addReaction_save(t) ==
  /\ lastStep' = <<"addReaction_save", t>>
  /\ t \in Pending("react", "save")
  /\ LET rid == IF t.existing = 0 THEN newReactionId(reactions) ELSE t.existing IN
       IF saveReactionFails(reactions, rid, t.id, t.userId)
         THEN Reject("InternalServerError") /\ Finish(t) /\ UNCHANGED reactions
         ELSE /\ reactions' = saveReaction(reactions, rid, t.id, t.userId, t.reaction)
              /\ Step(t, [op |-> "react", pc |-> "findById", id |-> t.id,
                          userId |-> t.userId, reaction |-> t.reaction])
              /\ emitted' = EmptyBag
  /\ GatewayUnchanged
  /\ UNCHANGED <<participants, deletions, conversations, messages>>

\* const message = await this.messagesService.findById(messageId)
addReaction_findById(t) ==
  /\ lastStep' = <<"addReaction_findById", t>>
  /\ t \in Pending("react", "findById")
  /\ Step(t, [op |-> "react", pc |-> "emit", id |-> t.id, userId |-> t.userId,
              reaction |-> t.reaction, conversationId |-> messages[t.id].conversationId])
  /\ emitted' = EmptyBag
  /\ GatewayUnchanged
  /\ UNCHANGED <<participants, reactions, deletions, conversations, messages>>

\* emit('messageReaction', { messageId, userId, reaction, action: 'add' })
addReaction_emit(t) ==
  /\ lastStep' = <<"addReaction_emit", t>>
  /\ t \in Pending("react", "emit")
  /\ emitted' = One([name |-> "messageReaction", to |-> Room(t.conversationId),
                     conversationId |-> t.conversationId, id |-> t.id, userId |-> t.userId,
                     reaction |-> t.reaction, action |-> "add"])
  /\ Finish(t)
  /\ GatewayUnchanged
  /\ UNCHANGED <<participants, reactions, deletions, conversations, messages>>

(* -------- MessagesController.removeReaction / removeReaction ---------- *)
\* const message = await this.messagesService.findById(messageId)
removeReaction(id, u) ==
  /\ lastStep' = <<"removeReaction", id, u>>
  /\ IF id \notin Ids(messages)
       THEN Reject("NotFound") /\ UNCHANGED tasks
       ELSE /\ Start([op |-> "unreact", pc |-> "delete", id |-> id, userId |-> u,
                      conversationId |-> messages[id].conversationId])
            /\ emitted' = EmptyBag
  /\ GatewayUnchanged
  /\ UNCHANGED <<participants, reactions, deletions, conversations, messages>>

\* await this.reactionRepository.delete({ messageId, userId })
removeReaction_delete(t) ==
  /\ lastStep' = <<"removeReaction_delete", t>>
  /\ t \in Pending("unreact", "delete")
  /\ reactions' = reactions \ reactionsOf(reactions, t.id, t.userId)
  /\ Step(t, [t EXCEPT !.pc = "emit"])
  /\ emitted' = EmptyBag
  /\ GatewayUnchanged
  /\ UNCHANGED <<participants, deletions, conversations, messages>>

\* emit('messageReaction', { messageId, userId, action: 'remove' })
removeReaction_emit(t) ==
  /\ lastStep' = <<"removeReaction_emit", t>>
  /\ t \in Pending("unreact", "emit")
  /\ emitted' = One([name |-> "messageReaction", to |-> Room(t.conversationId),
                     conversationId |-> t.conversationId, id |-> t.id, userId |-> t.userId,
                     reaction |-> Null, action |-> "remove"])
  /\ Finish(t)
  /\ GatewayUnchanged
  /\ UNCHANGED <<participants, reactions, deletions, conversations, messages>>

(* ------------------- history fetch and search (reads) ----------------- *)
DefaultHistoryLimit == 50
DefaultSearchLimit == 20
DefaultGlobalSearchLimit == 50

\* .take(limit).skip(offset) on an ordered result
TakeSkip(seq, limit, offset) ==
  IF offset >= Len(seq)
    THEN <<>>
    ELSE SubSeq(seq, offset + 1, IF offset + limit < Len(seq) THEN offset + limit ELSE Len(seq))

\* the selected ids in creation order (orderBy createdAt ASC)
RECURSIVE Asc(_)
Asc(ids) ==
  IF ids = {}
    THEN <<>>
    ELSE LET first == CHOOSE i \in ids : \A j \in ids : i <= j
         IN <<first>> \o Asc(ids \ {first})

\* orderBy createdAt DESC
Reverse(seq) == [k \in 1..Len(seq) |-> seq[Len(seq) + 1 - k]]

\* the object literal the controller maps every fetched or found message to
\* (findByConversation, searchMessages, searchMessagesGlobal)
listResponse(msgs, i) ==
  [id |-> i, conversationId |-> msgs[i].conversationId, senderId |-> msgs[i].senderId,
   content |-> msgs[i].content, type |-> msgs[i].type, fileUrl |-> msgs[i].fileUrl,
   status |-> msgs[i].status, createdAt |-> i]

\* MessagesService.findByConversationId: find({ where: { conversationId } })
findByConversationId(msgs, c, limit, offset) ==
  LET found == {i \in Ids(msgs) : msgs[i].conversationId = c}
  IN TakeSkip(Asc(found), limit, offset)

\* MessagesController.findByConversation with the default limit and offset
findByConversation(msgs, parts, c, u) ==
  IF ~isParticipant(parts, c, u)
    THEN [error |-> "Forbidden", body |-> <<>>]
    ELSE LET ids == findByConversationId(msgs, c, DefaultHistoryLimit, 0)
         IN [error |-> "none", body |-> [k \in 1..Len(ids) |-> listResponse(msgs, ids[k])]]

\* MessagesService.findByConversationIdFiltered (no caller in the repository)
findByConversationIdFiltered(msgs, dels, c, u, limit, offset) ==
  LET found == {i \in Ids(msgs) : /\ msgs[i].conversationId = c
                                   /\ msgs[i].isDeleted = FALSE
                                   /\ <<i, u>> \notin dels}
  IN TakeSkip(Asc(found), limit, offset)

\* the characters of the contents and queries of the model
Chars(x) ==
  CASE x = "" -> <<>>
    [] x = "hi" -> <<"h", "i">>
    [] x = "Hi" -> <<"H", "i">>
    [] x = "HI" -> <<"H", "I">>
    [] x = "yo" -> <<"y", "o">>
    [] x = "Yo" -> <<"Y", "o">>
    [] OTHER -> <<x>>

\* LOWER(x) of SQL and toLowerCase() of JavaScript, on the letters of the model
LOWER(chars) ==
  [k \in 1..Len(chars) |->
     CASE chars[k] = "H" -> "h"
       [] chars[k] = "I" -> "i"
       [] chars[k] = "Y" -> "y"
       [] chars[k] = "O" -> "o"
       [] OTHER -> chars[k]]

\* text LIKE pattern: % matches any run of characters, _ any one character
RECURSIVE LikeMatch(_, _)
LikeMatch(pattern, text) ==
  IF pattern = <<>>
    THEN text = <<>>
    ELSE IF Head(pattern) = "%"
      THEN \/ LikeMatch(Tail(pattern), text)
           \/ text # <<>> /\ LikeMatch(pattern, Tail(text))
      ELSE /\ text # <<>>
           /\ Head(pattern) = "_" \/ Head(pattern) = Head(text)
           /\ LikeMatch(Tail(pattern), Tail(text))

\* LOWER(message.content) LIKE `%${query.toLowerCase()}%`; NULL content matches nothing
Like(content, query) ==
  /\ content # Null
  /\ LikeMatch(<<"%">> \o LOWER(Chars(query)) \o <<"%">>, LOWER(Chars(content)))

\* MessagesService.searchMessages / MessagesController.searchMessages
searchMessages(msgs, parts, c, u, query) ==
  IF ~isParticipant(parts, c, u)
    THEN [error |-> "Forbidden", body |-> <<>>]
    ELSE LET found == {i \in Ids(msgs) : /\ msgs[i].conversationId = c
                                        /\ Like(msgs[i].content, query)
                                        /\ msgs[i].isDeleted = FALSE}
             ids == TakeSkip(Reverse(Asc(found)), DefaultSearchLimit, 0)
         IN [error |-> "none", body |-> [k \in 1..Len(ids) |-> listResponse(msgs, ids[k])]]

\* MessagesService.searchMessagesGlobal / MessagesController.searchMessagesGlobal
searchMessagesGlobal(msgs, parts, u, query) ==
  LET cids == findByUserId(parts, u)
      found == {i \in Ids(msgs) : /\ msgs[i].conversationId \in cids
                                   /\ Like(msgs[i].content, query)
                                   /\ msgs[i].isDeleted = FALSE}
      ids == IF cids = {}
               THEN <<>>
               ELSE TakeSkip(Reverse(Asc(found)), DefaultGlobalSearchLimit, 0)
  IN [error |-> "none", body |-> [k \in 1..Len(ids) |-> listResponse(msgs, ids[k])]]

\* GET conversation/:conversationId: the response is what the find returned
fetchHistory(c, u) ==
  /\ lastStep' = <<"fetchHistory", c, u>>
  /\ emitted' = One([name |-> "history", to |-> "caller", conversationId |-> c, userId |-> u,
                     response |-> findByConversation(messages, participants, c, u)])
  /\ GatewayUnchanged
  /\ UNCHANGED <<participants, reactions, deletions, conversations, messages, tasks>>

\* GET conversation/:conversationId/search and GET search
search(c, u, query) ==
  /\ lastStep' = <<"search", c, u, query>>
  /\ emitted' = One([name |-> "found", to |-> "caller", conversationId |-> c, userId |-> u,
                     response |-> IF c = NoConversation
                                    THEN searchMessagesGlobal(messages, participants, u, query)
                                    ELSE searchMessages(messages, participants, c, u, query)])
  /\ GatewayUnchanged
  /\ UNCHANGED <<participants, reactions, deletions, conversations, messages, tasks>>

(* --------------------------- specifications --------------------------- *)
InitParticipants ==
  {<<"c1", "A">>, <<"c1", "B">>, <<"c2", "A">>, <<"c2", "C">>}

\* the preview rows after the messages of a table were sent one after the other
PreviewOf(msgs) ==
  [c \in Conversations |->
     LET own == {i \in Ids(msgs) : msgs[i].conversationId = c} IN
       IF own = {}
         THEN [lastMessageId |-> 0, lastMessageContent |-> Null]
         ELSE LET last == CHOOSE i \in own : \A j \in own : j <= i IN
                [lastMessageId |-> last, lastMessageContent |-> "hi"]]

InitOf(msgs, parts) ==
  /\ userSockets = <<>>
  /\ socketUsers = <<>>
  /\ connected = <<>>
  /\ rooms = {}
  /\ participants = parts
  /\ deletions = {}
  /\ reactions = {}
  /\ conversations = PreviewOf(msgs)
  /\ messages = msgs
  /\ tasks = EmptyBag
  /\ emitted = EmptyBag
  /\ lastStep = <<"init">>

InitWith(msgs) == InitOf(msgs, InitParticipants)

\* the state after construction: nobody connected, nothing sent
Init == InitWith(<<>>)

(* Presence: connects and disconnects of three sockets, the backfills the  *)
(* connects start; A has sent one message to c1 before anybody connected.  *)
InitPresence == InitWith(<<createMessage("c1", "A", "hi", "TEXT", Null)>>)

NextPresence ==
  \/ \E s \in Sockets, u \in Users : InFlight < PresenceTasks /\ handleConnection(s, u)
  \/ \E s \in Sockets : handleConnection(s, NoUser)
  \/ \E s \in Sockets : handleDisconnect(s)
  \/ \E t \in BagToSet(tasks) : markDelivered_findByUserId(t)
  \/ \E t \in BagToSet(tasks) : markDelivered_select(t)
  \/ \E t \in BagToSet(tasks) : markDelivered_update(t)
  \/ \E t \in BagToSet(tasks) : markDelivered_emit(t)
  \/ \E t \in BagToSet(tasks) : storeError(t)

SpecPresence == InitPresence /\ [][NextPresence]_vars

(* Batch transitions run one handler at a time (no handler starts while    *)
(* another is suspended), from every messages table of at most BatchMsgs   *)
(* rows that sends, status updates and global deletions can produce.       *)
DrawnMessages ==
  {[conversationId |-> cu[1], senderId |-> cu[2],
    content |-> IF d THEN Null ELSE "hi", type |-> "TEXT", fileUrl |-> Null,
    status |-> st, isDeleted |-> d, editedAt |-> Null, forwardedFromId |-> 0]
   : cu \in InitParticipants, st \in MessageStatus, d \in BOOLEAN}

DrawnStores(n) == UNION {[1..k -> DrawnMessages] : k \in 0..n}

InitBatch == \E msgs \in DrawnStores(BatchMsgs) : InitWith(msgs)

NextBatch ==
  \/ \E u \in Users : tasks = EmptyBag /\ handleConnection("s1", u)
  \/ tasks = EmptyBag /\ handleDisconnect("s1")
  \/ \E c \in Conversations : tasks = EmptyBag /\ handleMarkAsRead("s1", c)
  \/ \E t \in BagToSet(tasks) : markDelivered_findByUserId(t)
  \/ \E t \in BagToSet(tasks) : markDelivered_select(t)
  \/ \E t \in BagToSet(tasks) : markDelivered_update(t)
  \/ \E t \in BagToSet(tasks) : markDelivered_emit(t)
  \/ \E t \in BagToSet(tasks) : handleMarkAsRead_update(t)
  \/ \E t \in BagToSet(tasks) : handleMarkAsRead_emit(t)

SpecBatch == InitBatch /\ [][NextBatch]_vars

(* The whole core: every handler of the gateway and every operation of the *)
(* controller, from the state after construction.                          *)
Next ==
  \/ \E u \in Users : InFlight < MaxTasks /\ handleConnection("s1", u)
  \/ handleConnection("s1", NoUser)
  \/ handleDisconnect("s1")
  \/ \E t \in BagToSet(tasks) : markDelivered_findByUserId(t)
  \/ \E t \in BagToSet(tasks) : markDelivered_select(t)
  \/ \E t \in BagToSet(tasks) : markDelivered_update(t)
  \/ \E t \in BagToSet(tasks) : markDelivered_emit(t)
  \/ \E c \in Conversations \cup {NoConversation} :
       InFlight < MaxTasks /\ handleMarkAsRead("s1", c)
  \/ \E t \in BagToSet(tasks) : handleMarkAsRead_update(t)
  \/ \E t \in BagToSet(tasks) : handleMarkAsRead_emit(t)
  \/ \E u \in Users, content \in {"hi", " "} :
       /\ InFlight < MaxTasks
       /\ Len(messages) + Creating < MaxMsgs
       /\ sendTextMessage("c1", u, content)
  \/ \E t \in BagToSet(tasks) : saveMessage_save(t)
  \/ \E t \in BagToSet(tasks) : saveMessage_updateLastMessage(t)
  \/ \E t \in BagToSet(tasks) : sendTextMessage_findById(t)
  \/ \E t \in BagToSet(tasks) : sendTextMessage_broadcast(t)
  \/ \E id \in 1..MaxMsgs, st \in {"DELIVERED", "READ"} :
       InFlight < MaxTasks /\ updateMessageStatus(id, st)
  \/ \E t \in BagToSet(tasks) : updateStatus_save(t)
  \/ \E t \in BagToSet(tasks) : updateMessageStatus_emit(t)
  \/ \E id \in 1..MaxMsgs, u \in Users :
       InFlight < MaxTasks /\ editMessage(id, u, "yo")
  \/ \E t \in BagToSet(tasks) : editMessage_save(t)
  \/ \E t \in BagToSet(tasks) : editMessage_emit(t)
  \/ \E id \in 1..MaxMsgs, u \in Users :
       InFlight < MaxTasks /\ deleteMessageForEveryone(id, u)
  \/ \E t \in BagToSet(tasks) : deleteMessageForEveryone_findOne(t)
  \/ \E t \in BagToSet(tasks) : deleteMessageForEveryone_save(t)
  \/ \E t \in BagToSet(tasks) : deleteMessageForEveryone_emit(t)
  \/ \E id \in 1..MaxMsgs, u \in Users, c \in Conversations :
       /\ InFlight < MaxTasks
       /\ Len(messages) + Creating < MaxMsgs
       /\ forwardMessage(id, u, c)
  \/ \E t \in BagToSet(tasks) : forwardMessage_isParticipant(t)
  \/ \E t \in BagToSet(tasks) : forwardMessage_save(t)
  \/ \E t \in BagToSet(tasks) : forwardMessage_findById(t)
  \/ \E t \in BagToSet(tasks) : forwardMessage_broadcast(t)
  \/ \E t \in BagToSet(tasks) : storeError(t)

Spec == Init /\ [][Next]_vars

(* The delivery scenario: A has sent one message to the private            *)
(* conversation c1 of A and B while B had no connection.  A and B connect   *)
(* and disconnect; B issues markAsRead for c1 once the message is           *)
(* DELIVERED.  Store calls complete: a suspended handler is resumed.        *)
InitScenario == InitWith(<<createMessage("c1", "A", "hi", "TEXT", Null)>>)

\* the store call a suspended handler of user u waits for completes
ScenarioResume(op, u) ==
  \E t \in BagToSet(tasks) :
    /\ t.op = op /\ t.userId = u
    /\ \/ markDelivered_findByUserId(t)
       \/ markDelivered_select(t)
       \/ markDelivered_update(t)
       \/ markDelivered_emit(t)
       \/ handleMarkAsRead_update(t)
       \/ handleMarkAsRead_emit(t)

NextScenario ==
  \/ \E s \in {"s1", "s2"}, u \in {"A", "B"} :
       InFlight < ScenarioTasks /\ handleConnection(s, u)
  \/ \E s \in {"s1", "s2"} : handleDisconnect(s)
  \/ \E s \in {"s1", "s2"} :
       /\ InFlight < ScenarioTasks
       /\ s \in DOMAIN socketUsers /\ socketUsers[s] = "B"
       /\ messages[1].status = "DELIVERED"
       /\ handleMarkAsRead(s, "c1")
  \/ \E t \in BagToSet(tasks) : markDelivered_findByUserId(t)
  \/ \E t \in BagToSet(tasks) : markDelivered_select(t)
  \/ \E t \in BagToSet(tasks) : markDelivered_update(t)
  \/ \E t \in BagToSet(tasks) : markDelivered_emit(t)
  \/ \E t \in BagToSet(tasks) : handleMarkAsRead_update(t)
  \/ \E t \in BagToSet(tasks) : handleMarkAsRead_emit(t)

SpecScenario ==
  /\ InitScenario /\ [][NextScenario]_vars
  /\ \A op \in {"backfill", "markAsRead"}, u \in {"A", "B"} : WF_vars(ScenarioResume(op, u))

(* Rooms and fan-out: A and B connect on three sockets, join and leave the *)
(* room of c1, send to c1 and mark it read; A has sent one message to c1   *)
(* before anybody connected.                                               *)
InitRooms == InitWith(<<createMessage("c1", "A", "hi", "TEXT", Null)>>)

NextRooms ==
  \/ \E s \in Sockets, u \in {"A", "B"} : InFlight < RoomTasks /\ handleConnection(s, u)
  \/ \E s \in Sockets : handleDisconnect(s)
  \/ \E s \in Sockets : handleJoinConversation(s, "c1")
  \/ \E s \in Sockets : handleLeaveConversation(s, "c1")
  \/ \E t \in BagToSet(tasks) : markDelivered_findByUserId(t)
  \/ \E t \in BagToSet(tasks) : markDelivered_select(t)
  \/ \E t \in BagToSet(tasks) : markDelivered_update(t)
  \/ \E t \in BagToSet(tasks) : markDelivered_emit(t)
  \/ \E s \in Sockets : InFlight < RoomTasks /\ handleMarkAsRead(s, "c1")
  \/ \E t \in BagToSet(tasks) : handleMarkAsRead_update(t)
  \/ \E t \in BagToSet(tasks) : handleMarkAsRead_emit(t)
  \/ \E u \in {"A", "B"} :
       /\ InFlight < RoomTasks
       /\ Len(messages) + Creating < RoomMsgs
       /\ sendTextMessage("c1", u, "hi")
  \/ \E t \in BagToSet(tasks) : saveMessage_save(t)
  \/ \E t \in BagToSet(tasks) : saveMessage_updateLastMessage(t)
  \/ \E t \in BagToSet(tasks) : sendTextMessage_findById(t)
  \/ \E t \in BagToSet(tasks) : sendTextMessage_broadcast(t)

SpecRooms == InitRooms /\ [][NextRooms]_vars

(* Fan-out of a send: A and B connect on three sockets, join and leave the *)
(* room of c1, and A sends to c1, from the state after construction.       *)
NextFanout ==
  \/ \E s \in Sockets, u \in {"A", "B"} : InFlight < FanoutTasks /\ handleConnection(s, u)
  \/ \E s \in Sockets : handleDisconnect(s)
  \/ \E s \in Sockets : handleJoinConversation(s, "c1")
  \/ \E s \in Sockets : handleLeaveConversation(s, "c1")
  \/ \E t \in BagToSet(tasks) : markDelivered_findByUserId(t)
  \/ \E t \in BagToSet(tasks) : markDelivered_select(t)
  \/ \E t \in BagToSet(tasks) : markDelivered_update(t)
  \/ \E t \in BagToSet(tasks) : markDelivered_emit(t)
  \/ /\ InFlight < FanoutTasks
     /\ Len(messages) + Creating < FanoutMsgs
     /\ sendTextMessage("c1", "A", "hi")
  \/ \E t \in BagToSet(tasks) : saveMessage_save(t)
  \/ \E t \in BagToSet(tasks) : saveMessage_updateLastMessage(t)
  \/ \E t \in BagToSet(tasks) : sendTextMessage_findById(t)
  \/ \E t \in BagToSet(tasks) : sendTextMessage_broadcast(t)

SpecFanout == Init /\ [][NextFanout]_vars

(* Concurrent sends: text messages and file uploads of A and B to c1, the  *)
(* store calls of two handlers interleaving at every await; every store    *)
(* call completes.                                                         *)
NextRace ==
  \/ \E u \in {"A", "B"}, content \in {"hi", "yo"} :
       /\ InFlight < RaceTasks
       /\ Len(messages) + Creating < RaceMsgs
       /\ sendTextMessage("c1", u, content)
  \/ \E u \in {"A", "B"} :
       /\ InFlight < RaceTasks
       /\ Len(messages) + Creating < RaceMsgs
       /\ createFileMessage("c1", u, "IMAGE", Null)
  \/ \E t \in BagToSet(tasks) : saveMessage_save(t)
  \/ \E t \in BagToSet(tasks) : saveMessage_updateLastMessage(t)
  \/ \E t \in BagToSet(tasks) : sendTextMessage_findById(t)
  \/ \E t \in BagToSet(tasks) : sendTextMessage_broadcast(t)

SpecRace == Init /\ [][NextRace]_vars

(* Visibility: A sends a text and B uploads an image to c1; both edit,     *)
(* delete for everyone and delete for themselves; anybody fetches the       *)
(* history of c1 and searches.                                             *)
NextVisibility ==
  \/ /\ InFlight < VisTasks
     /\ Len(messages) + Creating < VisMsgs
     /\ sendTextMessage("c1", "A", "Hi")
  \/ /\ InFlight < VisTasks
     /\ Len(messages) + Creating < VisMsgs
     /\ createFileMessage("c1", "B", "IMAGE", Null)
  \/ \E t \in BagToSet(tasks) : saveMessage_save(t)
  \/ \E t \in BagToSet(tasks) : saveMessage_updateLastMessage(t)
  \/ \E t \in BagToSet(tasks) : sendTextMessage_findById(t)
  \/ \E t \in BagToSet(tasks) : sendTextMessage_broadcast(t)
  \/ \E id \in 1..VisMsgs, u \in {"A", "B"} :
       InFlight < VisTasks /\ editMessage(id, u, "yo")
  \/ \E t \in BagToSet(tasks) : editMessage_save(t)
  \/ \E t \in BagToSet(tasks) : editMessage_emit(t)
  \/ \E id \in 1..VisMsgs, u \in {"A", "B"} :
       InFlight < VisTasks /\ deleteMessageForEveryone(id, u)
  \/ \E t \in BagToSet(tasks) : deleteMessageForEveryone_findOne(t)
  \/ \E t \in BagToSet(tasks) : deleteMessageForEveryone_save(t)
  \/ \E t \in BagToSet(tasks) : deleteMessageForEveryone_emit(t)
  \/ \E id \in 1..VisMsgs, u \in {"A", "B"} :
       InFlight < VisTasks /\ deleteMessageForMe(id, u)
  \/ \E t \in BagToSet(tasks) : deleteMessageForMe_findOne(t)
  \/ \E t \in BagToSet(tasks) : deleteMessageForMe_save(t)
  \/ \E u \in Users : fetchHistory("c1", u)
  \/ \E c \in {"c1", NoConversation}, u \in {"A", "B"}, query \in {"H", "yo"} :
       search(c, u, query)

SpecVisibility == Init /\ [][NextVisibility]_vars

(* Tombstones: A sends a text to c1, edits it and deletes it for everyone, *)
(* two handlers interleaving at every await.                               *)
NextTombstone ==
  \/ /\ InFlight < TombTasks
     /\ Len(messages) + Creating < TombMsgs
     /\ sendTextMessage("c1", "A", "Hi")
  \/ \E t \in BagToSet(tasks) : saveMessage_save(t)
  \/ \E t \in BagToSet(tasks) : saveMessage_updateLastMessage(t)
  \/ \E t \in BagToSet(tasks) : sendTextMessage_findById(t)
  \/ \E t \in BagToSet(tasks) : sendTextMessage_broadcast(t)
  \/ \E id \in 1..TombMsgs, u \in {"A", "B"} :
       InFlight < TombTasks /\ editMessage(id, u, "yo")
  \/ \E t \in BagToSet(tasks) : editMessage_save(t)
  \/ \E t \in BagToSet(tasks) : editMessage_emit(t)
  \/ \E id \in 1..TombMsgs, u \in {"A", "B"} :
       InFlight < TombTasks /\ deleteMessageForEveryone(id, u)
  \/ \E t \in BagToSet(tasks) : deleteMessageForEveryone_findOne(t)
  \/ \E t \in BagToSet(tasks) : deleteMessageForEveryone_save(t)
  \/ \E t \in BagToSet(tasks) : deleteMessageForEveryone_emit(t)

SpecTombstone == Init /\ [][NextTombstone]_vars

(* Authorization: A, B and the outsider C send to c1, edit and delete the   *)
(* messages of c1 for everyone, fetch the history of c1 and search it.      *)
NextAuth ==
  \/ \E u \in Users, content \in {"hi", " "} :
       /\ InFlight < AuthTasks
       /\ Len(messages) + Creating < AuthMsgs \/ <<"c1", u>> \notin participants
       /\ sendTextMessage("c1", u, content)
  \/ \E t \in BagToSet(tasks) : saveMessage_save(t)
  \/ \E t \in BagToSet(tasks) : saveMessage_updateLastMessage(t)
  \/ \E t \in BagToSet(tasks) : sendTextMessage_findById(t)
  \/ \E t \in BagToSet(tasks) : sendTextMessage_broadcast(t)
  \/ \E id \in 1..AuthMsgs, u \in Users :
       InFlight < AuthTasks /\ editMessage(id, u, "yo")
  \/ \E t \in BagToSet(tasks) : editMessage_save(t)
  \/ \E t \in BagToSet(tasks) : editMessage_emit(t)
  \/ \E id \in 1..AuthMsgs, u \in Users :
       InFlight < AuthTasks /\ deleteMessageForEveryone(id, u)
  \/ \E t \in BagToSet(tasks) : deleteMessageForEveryone_findOne(t)
  \/ \E t \in BagToSet(tasks) : deleteMessageForEveryone_save(t)
  \/ \E t \in BagToSet(tasks) : deleteMessageForEveryone_emit(t)
  \/ \E u \in Users : fetchHistory("c1", u)
  \/ \E u \in Users : search("c1", u, "h")

SpecAuth == Init /\ [][NextAuth]_vars

(* Validation: A and the outsider C call saveMessage for c1 with every     *)
(* combination of type, content and fileUrl, present, blank or missing.     *)
NextSave ==
  \/ \E u \in {"A", "C"}, type \in MessageType,
        content \in {"hi", " ", Null}, fileUrl \in {"/uploads/f", " ", Null} :
       /\ InFlight < SaveTasks
       /\ Len(messages) + Creating < SaveMsgs
       /\ saveMessage("c1", u, type, content, fileUrl)
  \/ \E t \in BagToSet(tasks) : saveMessage_save(t)
  \/ \E t \in BagToSet(tasks) : saveMessage_updateLastMessage(t)
  \/ \E t \in BagToSet(tasks) : sendTextMessage_findById(t)
  \/ \E t \in BagToSet(tasks) : sendTextMessage_broadcast(t)

SpecSave == Init /\ [][NextSave]_vars

(* Forwarding: A sends a text or uploads an image to c1; A and C forward a  *)
(* message to c1 or c2; A edits and deletes for everyone.                   *)
NextForward ==
  \/ /\ InFlight < ForwardTasks
     /\ Len(messages) + Creating < ForwardMsgs
     /\ sendTextMessage("c1", "A", "hi")
  \/ /\ InFlight < ForwardTasks
     /\ Len(messages) + Creating < ForwardMsgs
     /\ createFileMessage("c1", "A", "IMAGE", Null)
  \/ \E t \in BagToSet(tasks) : saveMessage_save(t)
  \/ \E t \in BagToSet(tasks) : saveMessage_updateLastMessage(t)
  \/ \E t \in BagToSet(tasks) : sendTextMessage_findById(t)
  \/ \E t \in BagToSet(tasks) : sendTextMessage_broadcast(t)
  \/ \E id \in 1..ForwardMsgs, u \in {"A", "C"}, c \in Conversations :
       /\ InFlight < ForwardTasks
       /\ Len(messages) + Creating < ForwardMsgs
       /\ forwardMessage(id, u, c)
  \/ \E t \in BagToSet(tasks) : forwardMessage_isParticipant(t)
  \/ \E t \in BagToSet(tasks) : forwardMessage_save(t)
  \/ \E t \in BagToSet(tasks) : forwardMessage_findById(t)
  \/ \E t \in BagToSet(tasks) : forwardMessage_broadcast(t)
  \/ \E id \in 1..ForwardMsgs :
       InFlight < ForwardTasks /\ editMessage(id, "A", "yo")
  \/ \E t \in BagToSet(tasks) : editMessage_save(t)
  \/ \E t \in BagToSet(tasks) : editMessage_emit(t)
  \/ \E id \in 1..ForwardMsgs :
       InFlight < ForwardTasks /\ deleteMessageForEveryone(id, "A")
  \/ \E t \in BagToSet(tasks) : deleteMessageForEveryone_findOne(t)
  \/ \E t \in BagToSet(tasks) : deleteMessageForEveryone_save(t)
  \/ \E t \in BagToSet(tasks) : deleteMessageForEveryone_emit(t)

SpecForward == Init /\ [][NextForward]_vars

(* Per-user deletions: A and B delete for themselves the two messages A    *)
(* has sent to c1, two handlers interleaving at every await.                *)
InitDeletions ==
  InitWith(<<createMessage("c1", "A", "hi", "TEXT", Null),
             createMessage("c1", "A", "hi", "TEXT", Null)>>)

NextDeletions ==
  \/ \E id \in 1..3, u \in {"A", "B"} :
       InFlight < DeletionTasks /\ deleteMessageForMe(id, u)
  \/ \E t \in BagToSet(tasks) : deleteMessageForMe_findOne(t)
  \/ \E t \in BagToSet(tasks) : deleteMessageForMe_save(t)

SpecDeletions == InitDeletions /\ [][NextDeletions]_vars

(* Reactions: A and B add, change and remove their reaction to the message *)
(* A has sent to c1, two handlers interleaving at every await.              *)
InitReactions == InitWith(<<createMessage("c1", "A", "hi", "TEXT", Null)>>)

NextReactions ==
  \/ \E id \in 1..2, u \in {"A", "B"}, reaction \in {"like", "love"} :
       InFlight < ReactionTasks /\ addReaction(id, u, reaction)
  \/ \E t \in BagToSet(tasks) : addReaction_findOne(t)
  \/ \E t \in BagToSet(tasks) : addReaction_save(t)
  \/ \E t \in BagToSet(tasks) : addReaction_findById(t)
  \/ \E t \in BagToSet(tasks) : addReaction_emit(t)
  \/ \E id \in 1..2, u \in {"A", "B"} :
       InFlight < ReactionTasks /\ removeReaction(id, u)
  \/ \E t \in BagToSet(tasks) : removeReaction_delete(t)
  \/ \E t \in BagToSet(tasks) : removeReaction_emit(t)

SpecReactions == InitReactions /\ [][NextReactions]_vars

(* Disconnect during a send: A and B connect on two sockets and join the   *)
(* room of c1; A, while connected, sends to c1; any socket disconnects at    *)
(* any moment.  Store calls complete: a suspended send is resumed.           *)
NextCancel ==
  \/ \E s \in {"s1", "s2"}, u \in {"A", "B"} :
       InFlight < CancelTasks /\ handleConnection(s, u)
  \/ \E s \in {"s1", "s2"} : handleDisconnect(s)
  \/ \E s \in {"s1", "s2"} : handleJoinConversation(s, "c1")
  \/ \E t \in BagToSet(tasks) : markDelivered_findByUserId(t)
  \/ \E t \in BagToSet(tasks) : markDelivered_select(t)
  \/ \E t \in BagToSet(tasks) : markDelivered_update(t)
  \/ \E t \in BagToSet(tasks) : markDelivered_emit(t)
  \/ /\ InFlight < CancelTasks
     /\ Len(messages) + Creating < CancelMsgs
     /\ "A" \in DOMAIN userSockets
     /\ sendTextMessage("c1", "A", "hi")
  \/ \E t \in BagToSet(tasks) : saveMessage_save(t)
  \/ \E t \in BagToSet(tasks) : saveMessage_updateLastMessage(t)
  \/ \E t \in BagToSet(tasks) : sendTextMessage_findById(t)
  \/ \E t \in BagToSet(tasks) : sendTextMessage_broadcast(t)

SpecCancel ==
  /\ Init /\ [][NextCancel]_vars
  /\ WF_vars(\E t \in BagToSet(tasks) : saveMessage_save(t))
  /\ WF_vars(\E t \in BagToSet(tasks) : saveMessage_updateLastMessage(t))
  /\ WF_vars(\E t \in BagToSet(tasks) : sendTextMessage_findById(t))
  /\ WF_vars(\E t \in BagToSet(tasks) : sendTextMessage_broadcast(t))

(* Search: A sends a text to c1, B uploads an image to c1 and C sends a     *)
(* text to c2; the senders delete for everyone; anybody searches c1, c2 or   *)
(* all of its conversations for a letter, a word or a LIKE wildcard.         *)
NextSearch ==
  \/ \E cu \in {<<"c1", "A">>, <<"c2", "C">>}, content \in {"Hi", "yo"} :
       /\ InFlight < SearchTasks
       /\ Len(messages) + Creating < SearchMsgs
       /\ sendTextMessage(cu[1], cu[2], content)
  \/ /\ InFlight < SearchTasks
     /\ Len(messages) + Creating < SearchMsgs
     /\ createFileMessage("c1", "B", "IMAGE", Null)
  \/ \E t \in BagToSet(tasks) : saveMessage_save(t)
  \/ \E t \in BagToSet(tasks) : saveMessage_updateLastMessage(t)
  \/ \E t \in BagToSet(tasks) : sendTextMessage_findById(t)
  \/ \E t \in BagToSet(tasks) : sendTextMessage_broadcast(t)
  \/ \E id \in 1..SearchMsgs, u \in Users :
       InFlight < SearchTasks /\ deleteMessageForEveryone(id, u)
  \/ \E t \in BagToSet(tasks) : deleteMessageForEveryone_findOne(t)
  \/ \E t \in BagToSet(tasks) : deleteMessageForEveryone_save(t)
  \/ \E t \in BagToSet(tasks) : deleteMessageForEveryone_emit(t)
  \/ \E c \in Conversations \cup {NoConversation}, u \in Users, query \in {"H", "yo", "%"} :
       search(c, u, query)

SpecSearch == Init /\ [][NextSearch]_vars

(* Group: c1 is a group conversation of A, B and C.  A sends one message   *)
(* to it and may delete it for everyone; B and C connect and disconnect,   *)
(* each on a socket of its own, and issue markAsRead for c1.  A's requests *)
(* start while no handler is suspended.                                    *)
GroupParticipants == {<<"c1", u>> : u \in Users} \cup {<<"c2", "A">>, <<"c2", "C">>}

InitGroup == InitOf(<<>>, GroupParticipants)

NextGroup ==
  \/ /\ tasks = EmptyBag
     /\ Len(messages) + Creating < GroupMsgs
     /\ sendTextMessage("c1", "A", "hi")
  \/ \E t \in BagToSet(tasks) : saveMessage_save(t)
  \/ \E t \in BagToSet(tasks) : saveMessage_updateLastMessage(t)
  \/ \E t \in BagToSet(tasks) : sendTextMessage_findById(t)
  \/ \E t \in BagToSet(tasks) : sendTextMessage_broadcast(t)
  \/ \E su \in {<<"s1", "B">>, <<"s2", "C">>} :
       InFlight < GroupTasks /\ handleConnection(su[1], su[2])
  \/ \E s \in {"s1", "s2"} : handleDisconnect(s)
  \/ \E t \in BagToSet(tasks) : markDelivered_findByUserId(t)
  \/ \E t \in BagToSet(tasks) : markDelivered_select(t)
  \/ \E t \in BagToSet(tasks) : markDelivered_update(t)
  \/ \E t \in BagToSet(tasks) : markDelivered_emit(t)
  \/ \E s \in {"s1", "s2"} : InFlight < GroupTasks /\ handleMarkAsRead(s, "c1")
  \/ \E t \in BagToSet(tasks) : handleMarkAsRead_update(t)
  \/ \E t \in BagToSet(tasks) : handleMarkAsRead_emit(t)
  \/ \E id \in 1..GroupMsgs : tasks = EmptyBag /\ deleteMessageForEveryone(id, "A")
  \/ \E t \in BagToSet(tasks) : deleteMessageForEveryone_findOne(t)
  \/ \E t \in BagToSet(tasks) : deleteMessageForEveryone_save(t)
  \/ \E t \in BagToSet(tasks) : deleteMessageForEveryone_emit(t)

SpecGroup == InitGroup /\ [][NextGroup]_vars

(* Membership: c1 is a group of A, B and C, c2 the 1-1 chat of A and C.    *)
(* B and C connect, each on a socket of its own; B joins and leaves the    *)
(* room of c2, C the room of c1; A and C send to the conversations and C   *)
(* forwards the message to c1; A removes C from a conversation, or C       *)
(* leaves it.                                                              *)
NextMembership ==
  \/ \E su \in {<<"s1", "B">>, <<"s2", "C">>} :
       InFlight < MemberTasks /\ handleConnection(su[1], su[2])
  \/ \E s \in {"s1", "s2"} : handleDisconnect(s)
  \/ \E t \in BagToSet(tasks) : markDelivered_findByUserId(t)
  \/ \E t \in BagToSet(tasks) : markDelivered_select(t)
  \/ \E t \in BagToSet(tasks) : markDelivered_update(t)
  \/ \E t \in BagToSet(tasks) : markDelivered_emit(t)
  \/ \E sc \in {<<"s1", "c2">>, <<"s2", "c1">>} : handleJoinConversation(sc[1], sc[2])
  \/ \E sc \in {<<"s1", "c2">>, <<"s2", "c1">>} : handleLeaveConversation(sc[1], sc[2])
  \/ \E u \in {"A", "C"}, c \in Conversations :
       /\ InFlight < MemberTasks
       /\ Len(messages) + Creating < MemberMsgs \/ <<c, u>> \notin participants
       /\ sendTextMessage(c, u, "hi")
  \/ \E t \in BagToSet(tasks) : saveMessage_save(t)
  \/ \E t \in BagToSet(tasks) : saveMessage_updateLastMessage(t)
  \/ \E t \in BagToSet(tasks) : sendTextMessage_findById(t)
  \/ \E t \in BagToSet(tasks) : sendTextMessage_broadcast(t)
  \/ /\ InFlight < MemberTasks
     /\ Len(messages) + Creating < MemberMsgs + 1
     /\ forwardMessage(1, "C", "c1")
  \/ \E t \in BagToSet(tasks) : forwardMessage_isParticipant(t)
  \/ \E t \in BagToSet(tasks) : forwardMessage_save(t)
  \/ \E t \in BagToSet(tasks) : forwardMessage_findById(t)
  \/ \E t \in BagToSet(tasks) : forwardMessage_broadcast(t)
  \/ \E r \in {"A", "C"}, c \in Conversations :
       InFlight < MemberTasks /\ removeParticipant(c, r, "C")
  \/ \E t \in BagToSet(tasks) : removeParticipant_findById(t)
  \/ \E t \in BagToSet(tasks) : removeParticipant_isRequester(t)
  \/ \E t \in BagToSet(tasks) : removeParticipant_isTarget(t)
  \/ \E t \in BagToSet(tasks) : removeParticipant_delete(t)
  \/ \E t \in BagToSet(tasks) : removeParticipant_emit(t)

SpecMembership == InitGroup /\ [][NextMembership]_vars

(* Failed sends: A and B send texts to c1, one request at a time, and the  *)
(* caller sends again after an error; any store call of a send may fail.   *)
NextFailure ==
  \/ \E u \in Users, content \in {"hi", "yo", " "} :
       /\ InFlight < FailTasks
       /\ Len(messages) + Creating < FailMsgs
       /\ sendTextMessage("c1", u, content)
  \/ \E t \in BagToSet(tasks) : saveMessage_save(t)
  \/ \E t \in BagToSet(tasks) : saveMessage_updateLastMessage(t)
  \/ \E t \in BagToSet(tasks) : sendTextMessage_findById(t)
  \/ \E t \in BagToSet(tasks) : sendTextMessage_broadcast(t)
  \/ \E t \in BagToSet(tasks) : storeError(t)

SpecFailure == Init /\ [][NextFailure]_vars

(* Backfill races: B has sent a message to c1 and C one to c2 while A had  *)
(* no connection.  A connects on two sockets, which starts a backfill      *)
(* each time, and issues markAsRead; B sends to c1 meanwhile.  The store    *)
(* calls of two handlers interleave at every await.                        *)
InitBackfill ==
  InitWith(<<createMessage("c1", "B", "hi", "TEXT", Null),
             createMessage("c2", "C", "hi", "TEXT", Null)>>)

NextBackfill ==
  \/ \E s \in {"s1", "s2"} : InFlight < BackfillTasks /\ handleConnection(s, "A")
  \/ \E s \in {"s1", "s2"} : handleDisconnect(s)
  \/ \E t \in BagToSet(tasks) : markDelivered_findByUserId(t)
  \/ \E t \in BagToSet(tasks) : markDelivered_select(t)
  \/ \E t \in BagToSet(tasks) : markDelivered_update(t)
  \/ \E t \in BagToSet(tasks) : markDelivered_emit(t)
  \/ \E s \in {"s1", "s2"}, c \in Conversations :
       InFlight < BackfillTasks /\ handleMarkAsRead(s, c)
  \/ \E t \in BagToSet(tasks) : handleMarkAsRead_update(t)
  \/ \E t \in BagToSet(tasks) : handleMarkAsRead_emit(t)
  \/ /\ InFlight < BackfillTasks
     /\ Len(messages) + Creating < BackfillMsgs
     /\ sendTextMessage("c1", "B", "hi")
  \/ \E t \in BagToSet(tasks) : saveMessage_save(t)
  \/ \E t \in BagToSet(tasks) : saveMessage_updateLastMessage(t)
  \/ \E t \in BagToSet(tasks) : sendTextMessage_findById(t)
  \/ \E t \in BagToSet(tasks) : sendTextMessage_broadcast(t)

SpecBackfill == InitBackfill /\ [][NextBackfill]_vars

(* Stale writes: A has sent one message to c1 while B had no connection.   *)
(* A edits the message and deletes it for everyone; B connects, which       *)
(* starts a backfill, and issues markAsRead for c1.  The store calls of two *)
(* handlers interleave at every await.                                      *)
InitStale == InitWith(<<createMessage("c1", "A", "hi", "TEXT", Null)>>)

NextStale ==
  \/ InFlight < StaleTasks /\ handleConnection("s1", "B")
  \/ handleDisconnect("s1")
  \/ \E t \in BagToSet(tasks) : markDelivered_findByUserId(t)
  \/ \E t \in BagToSet(tasks) : markDelivered_select(t)
  \/ \E t \in BagToSet(tasks) : markDelivered_update(t)
  \/ \E t \in BagToSet(tasks) : markDelivered_emit(t)
  \/ InFlight < StaleTasks /\ handleMarkAsRead("s1", "c1")
  \/ \E t \in BagToSet(tasks) : handleMarkAsRead_update(t)
  \/ \E t \in BagToSet(tasks) : handleMarkAsRead_emit(t)
  \/ \E newContent \in {"yo", "Hi"} : InFlight < StaleTasks /\ editMessage(1, "A", newContent)
  \/ \E t \in BagToSet(tasks) : editMessage_save(t)
  \/ \E t \in BagToSet(tasks) : editMessage_emit(t)
  \/ InFlight < StaleTasks /\ deleteMessageForEveryone(1, "A")
  \/ \E t \in BagToSet(tasks) : deleteMessageForEveryone_findOne(t)
  \/ \E t \in BagToSet(tasks) : deleteMessageForEveryone_save(t)
  \/ \E t \in BagToSet(tasks) : deleteMessageForEveryone_emit(t)

SpecStale == InitStale /\ [][NextStale]_vars

(* ------------------------------- claims ------------------------------- *)
\* the open connections of u: connected and not yet disconnected
LiveOf(conn, u) == {s \in DOMAIN conn : conn[s] = u}

\* number of events of a bag that have the given name and userId
CountFor(b, name, u) ==
  LET S == {e \in BagToSet(b) : e.name = name /\ e.userId = u}
  IN BagCardinality([e \in S |-> b[e]])

\* number of events of a bag that have the given name
CountNamed(b, name) ==
  LET S == {e \in BagToSet(b) : e.name = name}
  IN BagCardinality([e \in S |-> b[e]])

\* C1: in every reachable state a user is online iff it has a connection that
\* was connected and is not yet disconnected, and userSockets has a key only
\* for a non-empty set; so a disconnect of one of two connections leaves the
\* user online.
C1_OnlineIffLiveConnection ==
  /\ \A u \in Users : isUserOnline(u) <=> LiveOf(connected, u) # {}
  /\ \A u \in DOMAIN userSockets : userSockets[u] # {}

\* a disconnect of one of u's connections has just left u online
C1_Witness ==
  /\ lastStep[1] = "handleDisconnect"
  /\ lastStep[3] # NoUser
  /\ isUserOnline(lastStep[3])
  /\ LiveOf(connected, lastStep[3]) # {}

\* C2: a step emits userOffline for u exactly when it is a disconnect that
\* removes u's last open connection, and then it emits exactly one.
C2_UserOfflineExactlyOnLastDisconnect ==
  [][\A u \in Users :
       CountFor(emitted', "userOffline", u) =
         IF LiveOf(connected, u) # {} /\ LiveOf(connected', u) = {} THEN 1 ELSE 0]_vars

\* the disconnect of u's last connection has just emitted userOffline
C2_Witness ==
  /\ lastStep[1] = "handleDisconnect"
  /\ lastStep[3] # NoUser
  /\ CountFor(emitted, "userOffline", lastStep[3]) = 1
  /\ LiveOf(connected, lastStep[3]) = {}

\* C3: a connect that takes u from no open connection to one emits userOnline
\* naming u and starts the delivery backfill for u.
C3_FirstConnectAnnouncesAndBackfills ==
  [][\A u \in Users :
       (LiveOf(connected, u) = {} /\ LiveOf(connected', u) # {}) =>
          /\ CountFor(emitted', "userOnline", u) = 1
          /\ CopiesIn([op |-> "backfill", pc |-> "findByUserId", userId |-> u], tasks')
               = CopiesIn([op |-> "backfill", pc |-> "findByUserId", userId |-> u], tasks) + 1]_vars

\* u's first connection has just been registered
C3_Witness ==
  /\ lastStep[1] = "handleConnection"
  /\ lastStep[3] # NoUser
  /\ Cardinality(LiveOf(connected, lastStep[3])) = 1
  /\ CountFor(emitted, "userOnline", lastStep[3]) = 1
  /\ BagIn([op |-> "backfill", pc |-> "findByUserId", userId |-> lastStep[3]], tasks)

\* the rows markConversationAsRead(c, u) is to change, as C6 states them
ReadTargets(msgs, c, u) ==
  {i \in Ids(msgs) : /\ msgs[i].conversationId = c
                     /\ msgs[i].senderId # u
                     /\ msgs[i].status # "READ"
                     /\ ~msgs[i].isDeleted}

\* C6: markConversationAsRead(c, u) returns a count > 0 when c holds an
\* eligible message (not sent by u, not READ, not globally deleted) and 0
\* when it holds none; a second call right after the first returns 0 and
\* changes no row.
C6_MarkReadIdempotent ==
  \A c \in Conversations, u \in Users :
    LET first == markConversationAsReadCount(messages, c, u)
        after == markConversationAsRead(messages, c, u)
    IN /\ ReadTargets(messages, c, u) # {} => first > 0
       /\ ReadTargets(messages, c, u) = {} => first = 0 /\ after = messages
       /\ markConversationAsReadCount(after, c, u) = 0
       /\ markConversationAsRead(after, c, u) = after

\* a markAsRead has just reported a count > 0 and a second one would report 0
C6_Witness ==
  /\ lastStep[1] = "handleMarkAsRead_update"
  /\ \E t \in BagToSet(tasks) :
       /\ t.op = "markAsRead" /\ t.pc = "emit" /\ t.updatedCount > 0
       /\ markConversationAsReadCount(messages, t.conversationId, t.userId) = 0

\* the rows the backfill of u is to change, as C7 states them
DeliverTargets(msgs, parts, u) ==
  {i \in Ids(msgs) : /\ msgs[i].status = "SENT"
                     /\ ~msgs[i].isDeleted
                     /\ msgs[i].senderId # u
                     /\ <<msgs[i].conversationId, u>> \in parts}

\* C7: a backfill of u that runs without interleaving sets to DELIVERED
\* exactly the rows that are SENT, not globally deleted, not sent by u and in
\* a conversation of u, reports their number, and leaves every other row as
\* it was; a run that returns early had no such row.
C7_BackfillDeliversExactlyEligible ==
  [][/\ lastStep'[1] = "markDelivered_update" =>
          LET u == lastStep'[2].userId
              target == DeliverTargets(messages, participants, u)
          IN /\ messages' = [i \in Ids(messages) |->
                               IF i \in target
                                 THEN [messages[i] EXCEPT !.status = "DELIVERED"]
                                 ELSE messages[i]]
             /\ \A t \in BagToSet(tasks') : t.updatedCount = Cardinality(target)
     /\ (lastStep'[1] \in {"markDelivered_findByUserId", "markDelivered_select"}
           /\ tasks' = EmptyBag) =>
          /\ DeliverTargets(messages, participants, lastStep'[2].userId) = {}
          /\ messages' = messages]_vars

\* a backfill has just delivered a message and left another row alone
C7_Witness ==
  /\ lastStep[1] = "markDelivered_update"
  /\ \E t \in BagToSet(tasks) : t.pc = "emit" /\ t.updatedCount > 0
  /\ \E i \in Ids(messages) : messages[i].status = "DELIVERED"
  /\ \E i \in Ids(messages) : messages[i].status = "SENT"

\* C8 as stated: markConversationAsRead(c, u) sets to READ exactly the rows
\* of c not sent by u and not already READ, and leaves the others unchanged.
C8_Original ==
  [][lastStep'[1] = "handleMarkAsRead_update" =>
       LET c == lastStep'[2].conversationId
           u == lastStep'[2].userId
       IN messages' = [i \in Ids(messages) |->
                         IF /\ messages[i].conversationId = c
                            /\ messages[i].senderId # u
                            /\ messages[i].status # "READ"
                           THEN [messages[i] EXCEPT !.status = "READ"]
                           ELSE messages[i]]]_vars

\* C8 amended: markConversationAsRead(c, u) sets to READ exactly the rows of
\* c that are not sent by u, not already READ and not globally deleted, and
\* leaves every other row (own, other conversations, deleted) unchanged.
C8_MarkReadFrame ==
  [][lastStep'[1] = "handleMarkAsRead_update" =>
       LET c == lastStep'[2].conversationId
           u == lastStep'[2].userId
       IN messages' = [i \in Ids(messages) |->
                         IF /\ messages[i].conversationId = c
                            /\ messages[i].senderId # u
                            /\ messages[i].status # "READ"
                            /\ ~messages[i].isDeleted
                           THEN [messages[i] EXCEPT !.status = "READ"]
                           ELSE messages[i]]]_vars

\* a markAsRead has just set a row to READ and left a deleted row of the same
\* conversation, sent by somebody else, as it was
C8_Witness ==
  /\ lastStep[1] = "handleMarkAsRead_update"
  /\ \E i, j \in Ids(messages) :
       /\ messages[i].conversationId = lastStep[2].conversationId
       /\ messages[j].conversationId = lastStep[2].conversationId
       /\ i \in {k \in Ids(messages) : \E t \in BagToSet(tasks) : k \in t.changed}
       /\ messages[j].isDeleted /\ messages[j].status # "READ"
       /\ messages[j].senderId # lastStep[2].userId

\* C9: the continuation of a markAsRead emits exactly one messagesRead,
\* carrying the number of rows the call changed to READ, when that number is
\* > 0 and none when it is 0; it ends the handler, and no other step emits
\* messagesRead.
C9_OneAggregateReadEvent ==
  [][IF lastStep'[1] = "handleMarkAsRead_emit"
       THEN LET t == lastStep'[2] IN
              /\ CountNamed(emitted', "messagesRead")
                   = IF Cardinality(t.changed) > 0 THEN 1 ELSE 0
              /\ \A e \in BagToSet(emitted') :
                   /\ e.name = "messagesRead"
                   /\ e.conversationId = t.conversationId
                   /\ e.updatedCount = Cardinality(t.changed)
              /\ CopiesIn(t, tasks') = CopiesIn(t, tasks) - 1
       ELSE CountNamed(emitted', "messagesRead") = 0]_vars

\* one messagesRead with updatedCount 2 has just been emitted
C9_Witness ==
  /\ lastStep[1] = "handleMarkAsRead_emit"
  /\ \E e \in BagToSet(emitted) : e.name = "messagesRead" /\ e.updatedCount = 2
  /\ BagCardinality(emitted) = 1

\* C4 as stated: no step moves the status of a message backward along
\* SENT -> DELIVERED -> READ.
C4_StatusMonotonic ==
  [][\A i \in Ids(messages) :
       StatusRank(messages'[i].status) >= StatusRank(messages[i].status)]_vars

\* C5 as stated: the status of a persisted message changes only in the UPDATE
\* of the backfill (SENT -> DELIVERED) and in the UPDATE of markRead (-> READ).
C5_StatusChangedOnlyByBatch ==
  [][\A i \in Ids(messages) :
       messages'[i].status # messages[i].status =>
         \/ /\ lastStep'[1] = "markDelivered_update"
            /\ messages[i].status = "SENT" /\ messages'[i].status = "DELIVERED"
         \/ /\ lastStep'[1] = "handleMarkAsRead_update"
            /\ messages'[i].status = "READ"]_vars

\* C10: in the private conversation of A and B with A's one message SENT
\* and B not connected, once B has connected the message becomes DELIVERED;
\* a markAsRead that B then issues sets it to READ and reports updatedCount 1.
C10_DeliveredThenRead ==
  /\ (LiveOf(connected, "B") # {}) ~> (messages[1].status \in {"DELIVERED", "READ"})
  /\ [][messages[1].status = "SENT" => messages'[1].status \in {"SENT", "DELIVERED"}]_vars
  /\ (\E t \in BagToSet(tasks) : t.op = "markAsRead" /\ t.userId = "B")
       ~> (messages[1].status = "READ")
  /\ [][lastStep'[1] = "handleMarkAsRead_update" /\ messages[1].status = "DELIVERED" =>
          /\ messages'[1].status = "READ"
          /\ \E t \in BagToSet(tasks') :
               t.op = "markAsRead" /\ t.pc = "emit" /\ t.userId = "B" /\ t.updatedCount = 1]_vars

\* B's markAsRead has just announced the one message it set to READ
C10_Witness ==
  /\ lastStep[1] = "handleMarkAsRead_emit"
  /\ lastStep[2].userId = "B"
  /\ messages[1].status = "READ"
  /\ \E e \in BagToSet(emitted) : e.name = "messagesRead" /\ e.updatedCount = 1

\* C11 as stated: when a backfill or a markAsRead announces the rows it
\* changed, every open connection of the sender of such a row receives the
\* messagesDelivered / messagesRead event, joined to the room or not.
C11_SenderReceivesReceipts ==
  [][\A e \in BagToSet(emitted') :
       e.name \in {"messagesDelivered", "messagesRead"} =>
         \A i \in lastStep'[2].changed :
           messages[i].conversationId = e.conversationId =>
             LiveOf(connected, messages[i].senderId) \subseteq Receivers(e)]_vars

\* the participants of c other than the sender with no socket in the room of c
OutsideRoom(c, senderId) ==
  {p \in getParticipantUserIds(participants, c) \ {senderId} :
     \A s \in LiveOf(connected, p) : <<s, c>> \notin rooms}

\* C12 as stated: a send emits one newMessage to the room and exactly one
\* conversationUpdated for every other participant outside the room, however
\* many connections that participant has.
C12_Original ==
  [][lastStep'[1] = "sendTextMessage_broadcast" =>
       LET t == lastStep'[2] IN
         /\ CountNamed(emitted', "newMessage") = 1
         /\ \A p \in OutsideRoom(t.conversationId, t.senderId) :
              CountFor(emitted', "conversationUpdated", p) = 1]_vars

\* C12 amended: a send emits one newMessage, to the room of the conversation,
\* and for every participant other than the sender one conversationUpdated to
\* each of its open connections (none without a connection), in the room or
\* not; nobody else is notified.
C12_OnePerConnection ==
  [][lastStep'[1] = "sendTextMessage_broadcast" =>
       LET t == lastStep'[2]
           others == getParticipantUserIds(participants, t.conversationId) \ {t.senderId}
       IN /\ CountNamed(emitted', "newMessage") = 1
          /\ \A e \in BagToSet(emitted') :
               e.name = "newMessage" => e.to = Room(t.conversationId) /\ e.id = t.id
          /\ \A p \in others :
               /\ CountFor(emitted', "conversationUpdated", p) = Cardinality(LiveOf(connected, p))
               /\ \A s \in LiveOf(connected, p) :
                    \E e \in BagToSet(emitted') :
                      /\ e.name = "conversationUpdated" /\ e.to = <<"socket", s>>
                      /\ e.lastMessageId = t.id /\ emitted'[e] = 1
          /\ \A p \in Users \ others : CountFor(emitted', "conversationUpdated", p) = 0]_vars

\* A's send has just notified both connections of B, neither joined to the room
C12_Witness ==
  /\ lastStep[1] = "sendTextMessage_broadcast"
  /\ lastStep[2].senderId = "A"
  /\ Cardinality(LiveOf(connected, "B")) = 2
  /\ "B" \in OutsideRoom("c1", "A")
  /\ CountFor(emitted, "conversationUpdated", "B") = 2

\* C13: whatever participant list broadcastToConversation is given, no
\* conversationUpdated goes to a connection of the message's sender.
C13_SenderNotNotified ==
  \A senderId \in Users, participantIds \in SUBSET Users :
    \A e \in BagToSet(broadcastToConversation(userSockets, "c1", 1, senderId, "hi",
                                              participantIds)) :
      e.name = "conversationUpdated" => e.to[2] \notin LiveOf(connected, senderId)

\* a send of a sender with two open connections has just notified the others
C13_Witness ==
  /\ lastStep[1] = "sendTextMessage_broadcast"
  /\ Cardinality(LiveOf(connected, lastStep[2].senderId)) = 2
  /\ lastStep[2].senderId \in lastStep[2].participantIds
  /\ CountNamed(emitted, "conversationUpdated") = 1

\* C14 as stated: when newMessage / conversationUpdated for a message m is
\* emitted, m is a row of the store and the preview of its conversation names
\* m; a step that rejects a send emits no fan-out.
C14_FanOutAfterPersistAndPreview ==
  [][\A e \in BagToSet(emitted') :
       /\ e.name = "newMessage" =>
            /\ e.id \in Ids(messages)
            /\ conversations[e.conversationId].lastMessageId = e.id
       /\ e.name = "conversationUpdated" =>
            /\ e.lastMessageId \in Ids(messages)
            /\ conversations[e.conversationId].lastMessageId = e.lastMessageId
       /\ e.name = "error" => CountNamed(emitted', "newMessage") = 0]_vars

\* the message of conversation c that was persisted last, 0 when there is none
LastPersisted(msgs, c) ==
  LET own == {i \in Ids(msgs) : msgs[i].conversationId = c}
  IN IF own = {} THEN 0 ELSE CHOOSE i \in own : \A j \in own : j <= i

\* C15 as stated: with concurrent sends to one conversation, once no send is
\* in flight the preview names the message persisted last, and the fan-out of
\* a message m is never emitted while the preview names a message persisted
\* after m.
C15_PreviewFollowsCommitOrder ==
  [][/\ tasks' = EmptyBag =>
          \A c \in Conversations :
            conversations'[c].lastMessageId = LastPersisted(messages', c)
     /\ lastStep'[1] = "sendTextMessage_broadcast" =>
          conversations[lastStep'[2].conversationId].lastMessageId <= lastStep'[2].id]_vars

\* the response of the history fetch or search the last step answered with
LastResponse == (CHOOSE e \in BagToSet(emitted) : e.name \in {"history", "found"}).response

\* position of message i among the messages of its conversation, oldest first
PositionOf(msgs, i) ==
  Cardinality({j \in Ids(msgs) : msgs[j].conversationId = msgs[i].conversationId /\ j <= i})

\* ids of the entries of a response body
BodyIds(body) == {body[k].id : k \in 1..Len(body)}

\* C16 as stated: a history fetch by a participant shows every message deleted
\* for everyone at its original position, with content null and a flag
\* marking it as deleted.
C16_FetchShowsTombstone ==
  lastStep[1] = "fetchHistory" /\ isParticipant(participants, lastStep[2], lastStep[3]) =>
    \A i \in Ids(messages) :
      messages[i].conversationId = lastStep[2] /\ messages[i].isDeleted =>
        LET body == LastResponse.body IN
          /\ PositionOf(messages, i) \in 1..Len(body)
          /\ body[PositionOf(messages, i)].id = i
          /\ body[PositionOf(messages, i)].content = Null
          /\ "isDeleted" \in DOMAIN body[PositionOf(messages, i)]
          /\ body[PositionOf(messages, i)].isDeleted = TRUE

\* C17 as stated: a history fetch by viewer v omits every message v deleted
\* for itself, and shows every other participant the messages it did not
\* delete for itself, content unchanged.
C17_FetchOmitsDeletedForMe ==
  lastStep[1] = "fetchHistory" /\ isParticipant(participants, lastStep[2], lastStep[3]) =>
    \A i \in Ids(messages) :
      messages[i].conversationId = lastStep[2] =>
        IF <<i, lastStep[3]>> \in deletions
          THEN i \notin BodyIds(LastResponse.body)
          ELSE \E k \in 1..Len(LastResponse.body) :
                 /\ LastResponse.body[k].id = i
                 /\ LastResponse.body[k].content = messages[i].content

\* C18 as stated: the result of searchMessages and of searchMessagesGlobal for
\* viewer v contains no message v deleted for itself and no message deleted
\* for everyone.
C18_SearchAppliesVisibility ==
  lastStep[1] = "search" =>
    \A i \in BodyIds(LastResponse.body) :
      /\ <<i, lastStep[3]>> \notin deletions
      /\ messages[i].isDeleted = FALSE

\* C19 as stated: a message deleted for everyone stays a row with the same
\* conversation and sender, isDeleted true and content null, whatever step
\* follows, the save of a concurrent edit included.
C19_TombstonePermanent ==
  [][\A i \in Ids(messages) :
       messages[i].isDeleted =>
         /\ i \in Ids(messages')
         /\ messages'[i].conversationId = messages[i].conversationId
         /\ messages'[i].senderId = messages[i].senderId
         /\ messages'[i].isDeleted = TRUE
         /\ messages'[i].content = Null]_vars

\* C20 as stated: the save of an edit stores the new content and a non-null
\* editedAt; a later history fetch shows an edited message with its stored
\* content and a non-null editedAt; an edit of a message that is not TEXT is
\* rejected with BadRequest and changes nothing.
C20_EditStoredAndFetched ==
  /\ lastStep[1] = "editMessage_save" =>
       /\ messages[lastStep[2].id].content = lastStep[2].entity.content
       /\ messages[lastStep[2].id].editedAt # Null
  /\ lastStep[1] = "fetchHistory" /\ isParticipant(participants, lastStep[2], lastStep[3]) =>
       \A k \in 1..Len(LastResponse.body) :
         LET entry == LastResponse.body[k] IN
           messages[entry.id].editedAt # Null =>
             /\ entry.content = messages[entry.id].content
             /\ "editedAt" \in DOMAIN entry
             /\ entry.editedAt # Null
  /\ ( /\ lastStep[1] = "editMessage"
       /\ lastStep[2] \in Ids(messages)
       /\ messages[lastStep[2]].senderId = lastStep[3]
       /\ messages[lastStep[2]].type # "TEXT" ) =>
       emitted = One([name |-> "error", to |-> "caller", error |-> "BadRequest"])

\* the answer of a rejected call: one error for the caller and nothing else
Rejected(error) == One([name |-> "error", to |-> "caller", error |-> error])

\* the handler steps that answer a call of somebody who is not entitled to it
\* leave the stores and the suspended handlers as they were
AuthFrame == UNCHANGED <<messages, conversations, deletions, participants>>

\* C21 as stated: a send by a non-participant, a history fetch or search by a
\* non-participant and an edit or deletion for everyone by somebody other
\* than the sender are each answered with Forbidden, and the stores, the
\* preview and the events are as if the call had not been made.
C21_Original ==
  [][/\ (lastStep'[1] = "sendTextMessage" /\ <<lastStep'[2], lastStep'[3]>> \notin participants) =>
          emitted' = Rejected("Forbidden") /\ AuthFrame /\ UNCHANGED tasks
     /\ (lastStep'[1] \in {"fetchHistory", "search"}
           /\ <<lastStep'[2], lastStep'[3]>> \notin participants) =>
          /\ \A e \in BagToSet(emitted') :
               e.to = "caller" /\ e.response = [error |-> "Forbidden", body |-> <<>>]
          /\ AuthFrame /\ UNCHANGED tasks
     /\ (lastStep'[1] = "editMessage" /\ lastStep'[2] \in Ids(messages)
           /\ messages[lastStep'[2]].senderId # lastStep'[3]) =>
          emitted' = Rejected("Forbidden") /\ AuthFrame /\ UNCHANGED tasks
     /\ (lastStep'[1] = "deleteMessageForEveryone_findOne"
           /\ messages[lastStep'[2].id].senderId # lastStep'[2].userId) =>
          /\ emitted' = Rejected("Forbidden") /\ AuthFrame
          /\ tasks' = tasks (-) One(lastStep'[2])]_vars

\* C21 amended: the same, except that a send by a non-participant whose
\* content is blank is answered with BadRequest (the content is validated
\* before the membership); with content it is answered with Forbidden.
C21_RejectedBeforeMutation ==
  [][/\ (lastStep'[1] = "sendTextMessage" /\ <<lastStep'[2], lastStep'[3]>> \notin participants) =>
          /\ emitted' = Rejected(IF IsBlank(lastStep'[4]) THEN "BadRequest" ELSE "Forbidden")
          /\ AuthFrame /\ UNCHANGED tasks
     /\ (lastStep'[1] \in {"fetchHistory", "search"}
           /\ <<lastStep'[2], lastStep'[3]>> \notin participants) =>
          /\ \A e \in BagToSet(emitted') :
               e.to = "caller" /\ e.response = [error |-> "Forbidden", body |-> <<>>]
          /\ AuthFrame /\ UNCHANGED tasks
     /\ (lastStep'[1] = "editMessage" /\ lastStep'[2] \in Ids(messages)
           /\ messages[lastStep'[2]].senderId # lastStep'[3]) =>
          emitted' = Rejected("Forbidden") /\ AuthFrame /\ UNCHANGED tasks
     /\ (lastStep'[1] = "deleteMessageForEveryone_findOne"
           /\ messages[lastStep'[2].id].senderId # lastStep'[2].userId) =>
          /\ emitted' = Rejected("Forbidden") /\ AuthFrame
          /\ tasks' = tasks (-) One(lastStep'[2])]_vars

\* the outsider C has just been refused a send to c1, which holds a message
C21_Witness ==
  /\ lastStep = <<"sendTextMessage", "c1", "C", "hi">>
  /\ emitted = Rejected("Forbidden")
  /\ Len(messages) = 1
  /\ conversations["c1"].lastMessageId = 1

C23_ForwardIsIndependentCopy ==
  [][/\ (lastStep'[1] = "forwardMessage" /\ lastStep'[2] \in Ids(messages)) =>
          \E t \in BagToSet(tasks') :
            /\ t.op = "forward" /\ t.id = lastStep'[2] /\ t.userId = lastStep'[3]
            /\ t.conversationId = lastStep'[4] /\ t.original = messages[lastStep'[2]]
            /\ CopiesIn(t, tasks') = CopiesIn(t, tasks) + 1
     /\ (lastStep'[1] = "forwardMessage_isParticipant"
           /\ <<lastStep'[2].conversationId, lastStep'[2].userId>> \in participants) =>
          \E t \in BagToSet(tasks') :
            /\ t = [lastStep'[2] EXCEPT !.pc = "save"]
            /\ CopiesIn(t, tasks') = CopiesIn(t, tasks) + 1
     /\ lastStep'[1] = "forwardMessage_save" =>
          LET t == lastStep'[2]
              new == Len(messages) + 1
          IN /\ Len(messages') = new
             /\ \A i \in Ids(messages) : messages'[i] = messages[i]
             /\ <<t.conversationId, t.userId>> \in participants
             /\ messages'[new].conversationId = t.conversationId
             /\ messages'[new].senderId = t.userId
             /\ messages'[new].status = "SENT"
             /\ messages'[new].content = t.original.content
             /\ messages'[new].type = t.original.type
             /\ messages'[new].fileUrl = t.original.fileUrl
             /\ messages'[new].forwardedFromId = t.id
             /\ messages'[new].isDeleted = FALSE
     /\ lastStep'[1] \in {"deleteMessageForEveryone_save", "editMessage_save"} =>
          \A j \in Ids(messages) :
            messages[j].forwardedFromId = lastStep'[2].id =>
              /\ messages'[j].content = messages[j].content
              /\ messages'[j].isDeleted = messages[j].isDeleted
              /\ messages'[j].status = messages[j].status]_vars

\* A has just deleted for everyone the message whose copy in c2 keeps its content
C23_Witness ==
  /\ lastStep[1] = "deleteMessageForEveryone_save"
  /\ messages[lastStep[2].id].isDeleted
  /\ messages[lastStep[2].id].content = Null
  /\ \E j \in Ids(messages) :
       /\ messages[j].forwardedFromId = lastStep[2].id
       /\ messages[j].conversationId = "c2"
       /\ messages[j].content = "hi"
       /\ messages[j].isDeleted = FALSE

\* C24 as stated: no step removes a per-user deletion record, the table holds
\* at most one record per (message, user), and every deleteMessageForMe on an
\* existing message completes without an error, a repeated or concurrent
\* duplicate call included.
C24_DeletionsAppendOnlyNoError ==
  [][/\ deletions \subseteq deletions'
     /\ lastStep'[1] \in {"deleteMessageForMe_findOne", "deleteMessageForMe_save"} =>
          /\ CountNamed(emitted', "error") = 0
          /\ BagCardinality(tasks') < BagCardinality(tasks) =>
               <<lastStep'[2].id, lastStep'[2].userId>> \in deletions']_vars

\* C25 as stated: whatever the interleaving of the addReaction calls of one
\* user on one message, every call completes without an error, the save of a
\* call leaves exactly one row for the pair and that row has the value of the
\* call; no state has two rows for a pair; removeReaction leaves no row for
\* the pair.
C25_OneReactionLastWriteWins ==
  [][/\ lastStep'[1] \in {"addReaction_findOne", "addReaction_save", "addReaction_findById",
                          "addReaction_emit"} =>
          CountNamed(emitted', "error") = 0
     /\ lastStep'[1] = "addReaction_save" =>
          \E r \in reactions' :
            /\ reactionsOf(reactions', lastStep'[2].id, lastStep'[2].userId) = {r}
            /\ r.reaction = lastStep'[2].reaction
     /\ \A r1, r2 \in reactions' :
          r1.messageId = r2.messageId /\ r1.userId = r2.userId => r1 = r2
     /\ lastStep'[1] = "removeReaction_delete" =>
          reactionsOf(reactions', lastStep'[2].id, lastStep'[2].userId) = {}]_vars

\* C26: a disconnect of a connection that is not registered (never registered
\* or removed by an earlier disconnect) leaves both presence maps, the stores
\* and the suspended handlers as they were and emits nothing, neither
\* userOffline nor an error.
C26_UnregisteredDisconnectIgnored ==
  [][(lastStep'[1] = "handleDisconnect" /\ lastStep'[2] \notin DOMAIN socketUsers) =>
       /\ UNCHANGED <<userSockets, socketUsers, connected, rooms>>
       /\ UNCHANGED <<messages, conversations, deletions, reactions, participants, tasks>>
       /\ emitted' = EmptyBag]_vars

\* a disconnect of an unregistered connection has just been ignored while
\* somebody is online
C26_Witness ==
  /\ lastStep[1] = "handleDisconnect"
  /\ lastStep[3] = NoUser
  /\ lastStep[2] \notin DOMAIN socketUsers
  /\ DOMAIN userSockets # {}
  /\ emitted = EmptyBag

\* C27: in every reachable state socketUsers maps s to u iff s is in
\* userSockets[u], and the socket set of u is exactly the set of u's
\* connections that have connected and not yet disconnected.
C27_MapsMutualInverses ==
  /\ \A s \in Sockets, u \in Users :
       (s \in DOMAIN socketUsers /\ socketUsers[s] = u)
         <=> (u \in DOMAIN userSockets /\ s \in userSockets[u])
  /\ \A s \in DOMAIN socketUsers : socketUsers[s] \in Users
  /\ \A u \in DOMAIN userSockets : u \in Users /\ userSockets[u] \subseteq Sockets
  /\ \A u \in Users :
       (IF u \in DOMAIN userSockets THEN userSockets[u] ELSE {}) = LiveOf(connected, u)

\* one of u's three connections has just gone, the other two are still recorded
C27_Witness ==
  /\ lastStep[1] = "handleDisconnect"
  /\ lastStep[3] \in DOMAIN userSockets
  /\ Cardinality(userSockets[lastStep[3]]) = 2
  /\ Cardinality(LiveOf(connected, lastStep[3])) = 2
  /\ \A s \in userSockets[lastStep[3]] : socketUsers[s] = lastStep[3]

\* C30 as stated: a connect of a user who has an open connection already
\* emits no userOnline and starts no backfill, so that userOnline events and
\* backfill runs correspond one to one with offline-to-online transitions.
C30_OnlineOncePerTransition ==
  [][(lastStep'[1] = "handleConnection" /\ lastStep'[3] # NoUser) =>
       LET u == lastStep'[3]
           backfill == [op |-> "backfill", pc |-> "findByUserId", userId |-> u]
           first == LiveOf(connected, u) = {}
       IN /\ CountFor(emitted', "userOnline", u) = IF first THEN 1 ELSE 0
          /\ CopiesIn(backfill, tasks') = CopiesIn(backfill, tasks) + IF first THEN 1 ELSE 0]_vars

\* the sends that were accepted and have not been fanned out yet
SendsInFlight == {t \in BagToSet(tasks) : t.op = "send"}

\* C28: a disconnect leaves the message store, the deletion and reaction
\* records, the previews and the suspended handlers as they were; a send in
\* progress inserts its row, sets the preview to it and emits its newMessage
\* whether or not the sender is still connected, leaves the handlers in
\* flight only by its fan-out, and every accepted send gets there.
C28_DisconnectOnlyPresence ==
  /\ [][lastStep'[1] = "handleDisconnect" =>
          UNCHANGED <<messages, deletions, reactions, conversations, participants, tasks>>]_vars
  /\ [][/\ lastStep'[1] = "saveMessage_save" =>
             /\ Len(messages') = Len(messages) + 1
             /\ messages'[Len(messages')].senderId = lastStep'[2].senderId
             /\ messages'[Len(messages')].content = lastStep'[2].content
        /\ lastStep'[1] = "saveMessage_updateLastMessage" =>
             conversations'[lastStep'[2].conversationId].lastMessageId = lastStep'[2].id
        /\ lastStep'[1] = "sendTextMessage_broadcast" =>
             /\ lastStep'[2].id \in Ids(messages)
             /\ \E e \in BagToSet(emitted') :
                  e.name = "newMessage" /\ e.id = lastStep'[2].id /\ emitted'[e] = 1
        /\ (\E t \in SendsInFlight : CopiesIn(t, tasks') < CopiesIn(t, tasks)) =>
             lastStep'[1] \in {"saveMessage_save", "saveMessage_updateLastMessage",
                               "sendTextMessage_findById", "sendTextMessage_broadcast"}]_vars
  /\ (SendsInFlight # {}) ~> (SendsInFlight = {} /\ lastStep[1] = "sendTextMessage_broadcast")

\* the sender's last connection has just gone while its send is in progress
C28_Witness ==
  /\ lastStep[1] = "handleDisconnect"
  /\ lastStep[3] = "A"
  /\ LiveOf(connected, "A") = {}
  /\ \E t \in SendsInFlight : t.senderId = "A" /\ t.pc = "save"

\* content contains q, ignoring case: q occurs in content letter by letter
ContainsIgnoringCase(content, q) ==
  /\ content # Null
  /\ LET text == LOWER(Chars(content))
         word == LOWER(Chars(q))
     IN \E k \in 0..Len(text) :
          /\ k + Len(word) <= Len(text)
          /\ \A j \in 1..Len(word) : text[k + j] = word[j]

\* the conversations a search of conversation c (all conversations, when c is
\* NoConversation) by u covers
SearchScope(c, u) ==
  IF c = NoConversation
    THEN {d \in Conversations : <<d, u>> \in participants}
    ELSE IF <<c, u>> \in participants THEN {c} ELSE {}

\* C29 as stated: every message a search returns belongs to the conversation
\* searched (for the global search, to a conversation the searcher
\* participates in), is not deleted for everyone and has a content that
\* contains q ignoring case; and every such message of the scope is returned
\* (the number of matches stays below the limit here).
C29_SearchScopedAndFiltered ==
  lastStep[1] = "search" =>
    LET c == lastStep[2]
        u == lastStep[3]
        q == lastStep[4]
        returned == BodyIds(LastResponse.body)
    IN /\ \A i \in returned :
            /\ i \in Ids(messages)
            /\ c # NoConversation => messages[i].conversationId = c
            /\ c = NoConversation => <<messages[i].conversationId, u>> \in participants
            /\ messages[i].isDeleted = FALSE
            /\ ContainsIgnoringCase(messages[i].content, q)
       /\ \A i \in Ids(messages) :
            ( /\ messages[i].conversationId \in SearchScope(c, u)
              /\ messages[i].isDeleted = FALSE
              /\ ContainsIgnoringCase(messages[i].content, q) ) => i \in returned

\* the participants of conversation c other than the sender of message m
Recipients(m, c) == {cp[2] : cp \in {x \in participants : x[1] = c /\ x[2] # m.senderId}}

\* C31: delivery and read state is one flag per message, shared by the
\* conversation.  In a conversation of at least three participants, the
\* backfill of any one participant other than the sender makes a SENT
\* message DELIVERED, the markAsRead of any one participant other than the
\* sender makes it READ, whoever else is online or has read; and a markAsRead
\* by another participant afterwards counts no message that is READ already.
C31_OneFlagPerMessage ==
  [][/\ lastStep'[1] = "markDelivered_update" =>
         \A i \in Ids(messages) :
           ( /\ Cardinality(Recipients(messages[i], messages[i].conversationId)) >= 2
             /\ lastStep'[2].userId \in Recipients(messages[i], messages[i].conversationId)
             /\ messages[i].status = "SENT"
             /\ messages[i].isDeleted = FALSE ) => messages'[i].status = "DELIVERED"
     /\ lastStep'[1] = "handleMarkAsRead_update" =>
         LET c == lastStep'[2].conversationId
             u == lastStep'[2].userId
             unread == {i \in Ids(messages) : /\ messages[i].conversationId = c
                                              /\ messages[i].senderId # u
                                              /\ messages[i].isDeleted = FALSE
                                              /\ messages[i].status # "READ"}
         IN /\ \A i \in unread : messages'[i].status = "READ"
            /\ \A i \in Ids(messages) \ unread : messages'[i] = messages[i]
            /\ \A t \in BagToSet(tasks') :
                 t.op = "markAsRead" /\ t.pc = "emit" /\ t \notin BagToSet(tasks)
                   => t.updatedCount = Cardinality(unread) /\ t.changed = unread
    ]_vars

\* C31 witness: the group message was made READ by B's markAsRead, whose
\* result (1) is not emitted yet, and the markAsRead of C that ran
\* afterwards reports 0; only B and C are online in the three-party group
C31_Witness ==
  /\ lastStep[1] = "handleMarkAsRead_update"
  /\ lastStep[2].userId = "C"
  /\ Len(messages) = 1
  /\ Cardinality(Recipients(messages[1], "c1")) = 2
  /\ messages[1].status = "READ"
  /\ \E t \in BagToSet(tasks) :
       t.op = "markAsRead" /\ t.pc = "emit" /\ t.userId = "B" /\ t.updatedCount = 1
  /\ \E t \in BagToSet(tasks) :
       t.op = "markAsRead" /\ t.pc = "emit" /\ t.userId = "C" /\ t.updatedCount = 0

\* C32 as stated: a markAsRead for conversation c by a registered user who
\* is not a participant of c is rejected before any mutation: its store call
\* changes no message and its handler emits no messagesRead event.
C32_NonParticipantReadRejected ==
  [][/\ ( /\ lastStep'[1] = "handleMarkAsRead_update"
          /\ <<lastStep'[2].conversationId, lastStep'[2].userId>> \notin participants )
         => messages' = messages
     /\ ( /\ lastStep'[1] = "handleMarkAsRead_emit"
          /\ <<lastStep'[2].conversationId, lastStep'[2].userId>> \notin participants )
         => emitted' = EmptyBag
    ]_vars

\* C33 as stated: every connection that receives the newMessage of a
\* message of conversation c belongs to a user who is a participant of c at
\* the time of the fan-out.
C33_NewMessageOnlyToParticipants ==
  \A e \in BagToSet(emitted) :
    e.name = "newMessage" =>
      \A s \in Receivers(e) : <<e.conversationId, connected[s]>> \in participants

\* C34 as stated: forwardMessage(m, u, target) copies the message only when
\* u is a participant of the conversation of m as well as of the target: no
\* copy is written on behalf of a user who could not read the original.
C34_ForwardNeedsSourceAccess ==
  [][lastStep'[1] = "forwardMessage_save" =>
       /\ <<lastStep'[2].original.conversationId, lastStep'[2].userId>> \in participants
       /\ <<lastStep'[2].conversationId, lastStep'[2].userId>> \in participants]_vars

\* C35 as stated: whenever saveMessage ends with an error returned to the
\* caller (a rejection, or a failure of its message write or of the preview
\* update that follows it), no message of that request is persisted.
C35_FailedSendLeavesNoTrace ==
  [][/\ ( /\ lastStep'[1] = "sendTextMessage"
          /\ \E e \in BagToSet(emitted') : e.name = "error" ) => messages' = messages
     /\ ( /\ lastStep'[1] = "storeError"
          /\ lastStep'[2].op = "send"
          /\ lastStep'[2].pc \in {"save", "updateLastMessage"} )
         => /\ messages' = messages
            /\ "id" \in DOMAIN lastStep'[2] => lastStep'[2].id \notin Ids(messages')
    ]_vars

\* C36 as stated: under any interleaving, a backfill run emits a
\* messagesDelivered event for conversation c if and only if that run
\* changed at least one message of c from SENT to DELIVERED.
C36_DeliveredEventsMatchChanges ==
  [][lastStep'[1] = "markDelivered_emit" =>
       \A c \in Conversations :
         (\E e \in BagToSet(emitted') : e.name = "messagesDelivered" /\ e.conversationId = c)
           <=> (\E i \in lastStep'[2].changed : messages[i].conversationId = c)]_vars

\* C37 as stated: the write of editMessage changes only content and
\* editedAt of its message, the write of deleteMessageForEveryone only
\* isDeleted and content; neither changes the status, also when a batch
\* transition committed between the operation's read and its write.
C37_EditDeleteKeepStatus ==
  [][/\ lastStep'[1] = "editMessage_save" =>
         /\ \A i \in Ids(messages) : messages'[i].status = messages[i].status
         /\ \A i \in Ids(messages) :
              messages'[i] = [messages[i] EXCEPT !.content = messages'[i].content,
                                                 !.editedAt = messages'[i].editedAt]
     /\ lastStep'[1] = "deleteMessageForEveryone_save" =>
         /\ \A i \in Ids(messages) : messages'[i].status = messages[i].status
         /\ \A i \in Ids(messages) :
              messages'[i] = [messages[i] EXCEPT !.content = messages'[i].content,
                                                 !.isDeleted = messages'[i].isDeleted]
    ]_vars

\* C38 as stated: in every state where the preview of a conversation names
\* a last message, the preview's content is the current content of that
\* message.
C38_PreviewShowsCurrentContent ==
  \A c \in Conversations :
    conversations[c].lastMessageId \in Ids(messages) =>
      conversations[c].lastMessageContent = messages[conversations[c].lastMessageId].content

\* C39 as stated: at the moment a message created by saveMessage or
\* forwardMessage is committed, its sender is a participant of its
\* conversation, also when removeParticipant of the sender runs
\* concurrently; and a send by a user who is not a participant (any more)
\* is rejected with nothing started.
C39_WrittenByParticipant ==
  [][/\ lastStep'[1] \in {"saveMessage_save", "forwardMessage_save"} =>
         <<messages'[Len(messages')].conversationId, messages'[Len(messages')].senderId>>
           \in participants
     /\ ( /\ lastStep'[1] = "sendTextMessage"
          /\ <<lastStep'[2], lastStep'[3]>> \notin participants )
         => tasks' = tasks /\ \E e \in BagToSet(emitted') : e.name = "error"
    ]_vars

====
